---- MODULE Spec2Model ----
(***************************************************************************)
(* The shift/operation ledger of the taxi calculator (src/main.py):        *)
(* class Storage, the dataclasses Shift and Operation, the entry flow of   *)
(* ShiftPage that calls the store, the reset of SettingsPage, the filters  *)
(* and day totals of HistoryPage, and Storage.load on the data file.       *)
(*                                                                         *)
(* Identifiers (uuid4 strings) are modelled as the naturals 1, 2, ... in   *)
(* the order uuid.uuid4() hands them out; timestamps (now_iso, one-second  *)
(* resolution) as the ticks 0..MaxClock of a clock that never goes back,    *)
(* TicksPerDay ticks to the calendar day; dates as the number of the day;  *)
(* Python's None as the value None below; text as a sequence of one-       *)
(* character strings, so that strip() and parse_amount() are computed.     *)
(***************************************************************************)
EXTENDS Integers, Sequences, FiniteSets, TLC

\* Bounds of the model.
MaxUuid == 3
MaxClock == 1
TicksPerDay == 1
DaysPerMonth == 2

\* Python's None, for an id (ids are >= 1) and for a timestamp (>= 0).
None == -1

VARIABLES
    data,            \* Storage.data: the "shifts" list and "active_shift_id"
    file,            \* content of the data file (the last successful write)
    next_uuid,       \* the next value uuid.uuid4() returns
    clock,           \* the wall clock, in seconds
    last,            \* the last call: its name, arguments, pre-state, result, writes
    seen_shift_ids,  \* every shift id that has ever been in the store
    active_shift,    \* ShiftPage.active_shift: the shift the shift page shows
    msg,             \* the message box the last user action ended with
    history,         \* the history page: its filter and what it shows
    startup,         \* the data file as text, and Storage.data as load left it
    ui               \* the window: the page it shows, its dialogs and widgets

vars ==
    <<data, file, next_uuid, clock, last, seen_shift_ids, active_shift, msg,
      history, startup, ui>>

----------------------------------------------------------------------------
\* Helpers on sequences.

Min(S) == CHOOSE x \in S : \A y \in S : x <= y

RECURSIVE SumSeq(_)
SumSeq(s) == IF s = <<>> THEN 0 ELSE Head(s) + SumSeq(Tail(s))

\* s with the elements at the positions not in keep removed (order kept).
RECURSIVE FilterOps(_, _)
FilterOps(ops, op_id) ==
    IF ops = <<>> THEN <<>>
    ELSE IF Head(ops).id # op_id
         THEN <<Head(ops)>> \o FilterOps(Tail(ops), op_id)
         ELSE FilterOps(Tail(ops), op_id)

----------------------------------------------------------------------------
\* Text. Russian text is transliterated.

\* str.strip, for the blank as the white space.
RECURSIVE lstrip(_)
lstrip(t) == IF t # <<>> /\ Head(t) = " " THEN lstrip(Tail(t)) ELSE t

RECURSIVE rstrip(_)
rstrip(t) ==
    IF t # <<>> /\ t[Len(t)] = " " THEN rstrip(SubSeq(t, 1, Len(t) - 1)) ELSE t

strip(t) == rstrip(lstrip(t))

\* str.replace(c, ""), for a one-character c.
replace(t, c) == SelectSeq(t, LAMBDA x : x # c)

\* str.upper, for the Latin letters.
LowerCase == <<"a", "b", "c", "d", "e", "f", "g", "h", "i", "j", "k", "l", "m",
               "n", "o", "p", "q", "r", "s", "t", "u", "v", "w", "x", "y", "z">>
UpperCase == <<"A", "B", "C", "D", "E", "F", "G", "H", "I", "J", "K", "L", "M",
               "N", "O", "P", "Q", "R", "S", "T", "U", "V", "W", "X", "Y", "Z">>

upper(t) ==
    [i \in 1..Len(t) |->
        IF \E k \in 1..Len(LowerCase) : LowerCase[k] = t[i]
        THEN UpperCase[CHOOSE k \in 1..Len(LowerCase) : LowerCase[k] = t[i]]
        ELSE t[i]]

Digits == <<"0", "1", "2", "3", "4", "5", "6", "7", "8", "9">>

\* str.isdigit
isdigit(t) == t # <<>> /\ \A i \in 1..Len(t) : \E d \in 1..Len(Digits) : Digits[d] = t[i]

DigitValue(c) == (CHOOSE d \in 1..Len(Digits) : Digits[d] = c) - 1

\* int(t), for a string of digits.
RECURSIVE int(_)
int(t) ==
    IF t = <<>> THEN 0
    ELSE (Len(Digits) * int(SubSeq(t, 1, Len(t) - 1))) + DigitValue(t[Len(t)])

\* parse_amount returns None or an int: [none, value].
NoAmount == [none |-> TRUE, value |-> 0]

\* parse_amount
parse_amount(text) ==
    LET t == replace(replace(strip(text), " "), ",")
    IN IF t = <<>> THEN NoAmount
       ELSE IF t[1] = "-"
            THEN IF Len(t) = 1 THEN NoAmount
                 ELSE IF ~isdigit(Tail(t)) THEN NoAmount
                 ELSE [none |-> FALSE, value |-> 0 - int(Tail(t))]
            ELSE IF ~isdigit(t) THEN NoAmount
                 ELSE [none |-> FALSE, value |-> int(t)]

\* What the user types into the amount field, and into the input dialog
\* for a manual comment.
AmountTexts ==
    {<<>>, <<"-", "0">>, <<"a">>,
     <<"1", " ", "5", "0", "0">>, <<" ", "-", "3", "0", "0">>}
OtherTexts == {<<" ">>, <<" ", "M", "o", "j", "k", "a", " ">>}

\* parse_amount of the amount field, tabulated over the texts the user types.
ParsedAmount == [text \in AmountTexts |-> parse_amount(text)]

Zakaz == <<"Z", "a", "k", "a", "z">>
Chaevye == <<"C", "h", "a", "e", "v", "y", "e">>
Bonus == <<"B", "o", "n", "u", "s">>
Dostavka == <<"D", "o", "s", "t", "a", "v", "k", "a">>
Benzin == <<"B", "e", "n", "z", "i", "n">>
Shtraf == <<"S", "h", "t", "r", "a", "f">>
Remont == <<"R", "e", "m", "o", "n", "t">>
EdaKofe == <<"E", "d", "a", "/", "K", "o", "f", "e">>

\* default_comments
default_comments ==
    [income |-> <<Zakaz, Chaevye, Bonus, Dostavka>>,
     expense |-> <<Benzin, Shtraf, Remont, EdaKofe>>]

\* OTHER_COMMENT_TEXT, "Drugoe (vvesti vruchnuyu)"
OTHER_COMMENT_TEXT ==
    <<"D", "r", "u", "g", "o", "e", " ", "(", "v", "v", "e", "s", "t", "i", " ",
      "v", "r", "u", "c", "h", "n", "u", "y", "u", ")">>

\* The first item of the comment combo box when an amount is entered, and
\* its only item when none is.
ChooseCommentItem == <<"-", " ", "V", "y", "b", "e", "r", "i", "t", "e", " ", "-">>
EnterAmountItem == <<"V", "v", "e", "d", "i", "t", "e">>

\* The (amount, comment) pairs a caller passes to add_operation_to_active.
ValidInputs == {<<1500, Zakaz>>, <<0 - 300, Benzin>>}

----------------------------------------------------------------------------
\* The dataclasses.

NoShift == [id |-> None, start_ts |-> None, end_ts |-> None, operations |-> <<>>]
NoOperation == [id |-> None, ts |-> None, amount |-> 0, comment |-> <<>>]

\* Shift.income
income(s) ==
    SumSeq([i \in 1..Len(s.operations) |->
              IF s.operations[i].amount > 0 THEN s.operations[i].amount ELSE 0])

\* Shift.expense
expense(s) ==
    SumSeq([i \in 1..Len(s.operations) |->
              IF s.operations[i].amount < 0 THEN 0 - s.operations[i].amount ELSE 0])

\* Shift.total adding up the magnitudes of the amounts.
total_of_magnitudes(s) ==
    SumSeq([i \in 1..Len(s.operations) |->
              IF s.operations[i].amount < 0 THEN 0 - s.operations[i].amount
              ELSE s.operations[i].amount])

\* Shift.total
total(s) == SumSeq([i \in 1..Len(s.operations) |-> s.operations[i].amount])

\* default_data: the ledger part of the default store.
default_data ==
    [settings |-> [comments |-> default_comments],
     shifts |-> <<>>,
     active_shift_id |-> None]

----------------------------------------------------------------------------
\* JSON. A value is [t, v]: its type and its content; the content of an
\* object is the sequence of its <<key, value>> pairs, in the order of the
\* text. A text is a sequence of tokens [k, v]: the punctuation, the
\* literals, and the keys, strings and numbers with their content.

JNull == [t |-> "null", v |-> 0]
JBool(b) == [t |-> "bool", v |-> b]
JInt(n) == [t |-> "int", v |-> n]
JStr(x) == [t |-> "str", v |-> x]
JArr(items) == [t |-> "arr", v |-> items]
JObj(members) == [t |-> "obj", v |-> members]

Tok(k) == [k |-> k, v |-> 0]

\* dict.keys(), "key in dict" and dict[key]
Keys(o) == {o.v[i][1] : i \in 1..Len(o.v)}
HasKey(o, key) == \E i \in 1..Len(o.v) : o.v[i][1] = key
Get(o, key) == o.v[CHOOSE i \in 1..Len(o.v) : o.v[i][1] = key][2]

\* dict.setdefault(key, value)
setdefault(o, key, value) ==
    IF HasKey(o, key) THEN o ELSE JObj(Append(o.v, <<key, value>>))

\* dict[key] = value
setitem(o, key, value) ==
    IF HasKey(o, key)
    THEN JObj([i \in 1..Len(o.v) |->
                 IF o.v[i][1] = key THEN <<key, value>> ELSE o.v[i]])
    ELSE JObj(Append(o.v, <<key, value>>))

\* json.dumps
RECURSIVE dumps(_)
RECURSIVE dumps_items(_)
RECURSIVE dumps_members(_)
dumps_items(items) ==
    IF items = <<>> THEN <<>>
    ELSE dumps(Head(items))
         \o (IF Len(items) > 1 THEN <<Tok(",")>> ELSE <<>>)
         \o dumps_items(Tail(items))

dumps_members(members) ==
    IF members = <<>> THEN <<>>
    ELSE <<[k |-> "key", v |-> Head(members)[1]], Tok(":")>>
         \o dumps(Head(members)[2])
         \o (IF Len(members) > 1 THEN <<Tok(",")>> ELSE <<>>)
         \o dumps_members(Tail(members))

dumps(j) ==
    IF j.t = "null" THEN <<Tok("null")>>
    ELSE IF j.t = "bool" THEN <<Tok(IF j.v THEN "true" ELSE "false")>>
    ELSE IF j.t = "int" THEN <<[k |-> "int", v |-> j.v]>>
    ELSE IF j.t = "str" THEN <<[k |-> "str", v |-> j.v]>>
    ELSE IF j.t = "arr" THEN <<Tok("[")>> \o dumps_items(j.v) \o <<Tok("]")>>
    ELSE <<Tok("{")>> \o dumps_members(j.v) \o <<Tok("}")>>

\* The result of a parse that fails.
ParseError == [ok |-> FALSE, val |-> JNull, next |-> 0]

\* The JSON decoder: the value that starts at token i of text, and the
\* position after it.
RECURSIVE parse_value(_, _)
RECURSIVE parse_items(_, _, _)
RECURSIVE parse_members(_, _, _)
parse_items(text, i, acc) ==
    LET r == parse_value(text, i)
    IN IF ~r.ok \/ r.next > Len(text) THEN ParseError
       ELSE IF text[r.next].k = ","
            THEN parse_items(text, r.next + 1, Append(acc, r.val))
       ELSE IF text[r.next].k = "]"
            THEN [ok |-> TRUE, val |-> JArr(Append(acc, r.val)), next |-> r.next + 1]
       ELSE ParseError

parse_members(text, i, acc) ==
    IF i + 1 > Len(text) \/ text[i].k # "key" \/ text[i + 1].k # ":"
    THEN ParseError
    ELSE LET r == parse_value(text, i + 2)
             members == IF \E n \in 1..Len(acc) : acc[n][1] = text[i].v
                        THEN [n \in 1..Len(acc) |->
                                 IF acc[n][1] = text[i].v
                                 THEN <<text[i].v, r.val>> ELSE acc[n]]
                        ELSE Append(acc, <<text[i].v, r.val>>)
         IN IF ~r.ok \/ r.next > Len(text) THEN ParseError
            ELSE IF text[r.next].k = ","
                 THEN parse_members(text, r.next + 1, members)
            ELSE IF text[r.next].k = "}"
                 THEN [ok |-> TRUE, val |-> JObj(members), next |-> r.next + 1]
            ELSE ParseError

parse_value(text, i) ==
    IF i > Len(text) THEN ParseError
    ELSE LET tok == text[i]
             one(val) == [ok |-> TRUE, val |-> val, next |-> i + 1]
         IN IF tok.k = "null" THEN one(JNull)
            ELSE IF tok.k = "true" THEN one(JBool(TRUE))
            ELSE IF tok.k = "false" THEN one(JBool(FALSE))
            ELSE IF tok.k = "int" THEN one(JInt(tok.v))
            ELSE IF tok.k = "str" THEN one(JStr(tok.v))
            ELSE IF tok.k = "["
                 THEN IF i + 1 <= Len(text) /\ text[i + 1].k = "]"
                      THEN [ok |-> TRUE, val |-> JArr(<<>>), next |-> i + 2]
                      ELSE parse_items(text, i + 1, <<>>)
            ELSE IF tok.k = "{"
                 THEN IF i + 1 <= Len(text) /\ text[i + 1].k = "}"
                      THEN [ok |-> TRUE, val |-> JObj(<<>>), next |-> i + 2]
                      ELSE parse_members(text, i + 1, <<>>)
            ELSE ParseError

\* json.loads: [ok, val]; ok is FALSE when it raises.
loads(text) ==
    LET r == parse_value(text, 1)
    IN IF r.ok /\ r.next = Len(text) + 1 THEN r ELSE ParseError

----------------------------------------------------------------------------
\* Storage. A store state st is [data, file, writes, uuid, clock, calls, disk,
\* failed, raised]: the in-memory data, the data file, the snapshots written
\* to the file so far in the current call, the next uuid4 value, the last
\* reading of the clock, the calls of reset_all_history made so far in the
\* current call, the outcomes of the calls of write_text still to come (TRUE:
\* it writes, FALSE: it raises OSError; it writes once the sequence is used
\* up), the number of calls of write_text that raised, and the exception that
\* escapes the call.

\* Whether the next call of write_text writes.
DiskWrites(st) == st.disk = <<>> \/ Head(st.disk)

\* save without the try: the exception of write_text escapes.
save_propagates(st) ==
    IF DiskWrites(st)
    THEN [st EXCEPT !.file = st.data, !.writes = Append(st.writes, st.data),
                    !.disk = IF @ = <<>> THEN @ ELSE Tail(@)]
    ELSE [st EXCEPT !.disk = Tail(@), !.failed = @ + 1, !.raised = "OSError"]

\* Storage.save: dump self.data to the data file; "except Exception: pass"
\* drops what write_text raises. A write_text that raises leaves the file as
\* it was.
save(st) ==
    IF DiskWrites(st)
    THEN [st EXCEPT !.file = st.data, !.writes = Append(st.writes, st.data),
                    !.disk = IF @ = <<>> THEN @ ELSE Tail(@)]
    ELSE [st EXCEPT !.disk = Tail(@), !.failed = @ + 1]

\* Storage.set_comments
set_comments(st, income_list, expense_list) ==
    save([st EXCEPT !.data.settings.comments =
             [income |-> income_list, expense |-> expense_list]])

\* Operation(**od)
OperationOf(od) ==
    [id |-> od.id, ts |-> od.ts, amount |-> od.amount, comment |-> od.comment]

\* Storage.shifts: the Shift objects built from the stored dicts.
shifts(d) ==
    [i \in 1..Len(d.shifts) |->
        [id |-> d.shifts[i].id,
         start_ts |-> d.shifts[i].start_ts,
         end_ts |-> d.shifts[i].end_ts,
         operations |-> [j \in 1..Len(d.shifts[i].operations) |->
                            OperationOf(d.shifts[i].operations[j])]]]

\* Storage._save_shifts
_save_shifts(st, shs) ==
    save([st EXCEPT !.data.shifts =
            [i \in 1..Len(shs) |->
                [id |-> shs[i].id,
                 start_ts |-> shs[i].start_ts,
                 end_ts |-> shs[i].end_ts,
                 operations |-> [j \in 1..Len(shs[i].operations) |->
                                    OperationOf(shs[i].operations[j])]]]])

\* The positions of the shifts with the given id.
Positions(shs, id) == {i \in 1..Len(shs) : shs[i].id = id}

\* get_active_shift numbering a new shift by its position in the list
\* instead of drawing a uuid.
get_active_shift_positional_id(st, now) ==
    LET sid == st.data.active_shift_id
        shs == shifts(st.data)
    IN IF sid # None /\ Positions(shs, sid) # {}
       THEN [st |-> st, ret |-> shs[Min(Positions(shs, sid))]]
       ELSE LET new_shift == [id |-> Len(shs) + 1, start_ts |-> now,
                              end_ts |-> None, operations |-> <<>>]
                s1 == _save_shifts([st EXCEPT !.uuid = @ + 1, !.clock = now],
                                   Append(shs, new_shift))
                s2 == save([s1 EXCEPT !.data.active_shift_id = new_shift.id])
            IN [st |-> s2, ret |-> new_shift]

\* Storage.get_active_shift; now is what now_iso() returns if it is called.
get_active_shift(st, now) ==
    LET sid == st.data.active_shift_id
        shs == shifts(st.data)
    IN IF sid # None /\ Positions(shs, sid) # {}
       THEN [st |-> st, ret |-> shs[Min(Positions(shs, sid))]]
       ELSE LET new_shift == [id |-> st.uuid, start_ts |-> now,
                              end_ts |-> None, operations |-> <<>>]
                s1 == _save_shifts([st EXCEPT !.uuid = @ + 1, !.clock = now],
                                   Append(shs, new_shift))
                s2 == save([s1 EXCEPT !.data.active_shift_id = new_shift.id])
            IN [st |-> s2, ret |-> new_shift]

\* update_shift replacing the stored shift and adding the updated one again.
update_shift_duplicates(st, updated) ==
    LET shs == shifts(st.data)
        hit == Positions(shs, updated.id)
    IN _save_shifts(st, Append(IF hit # {}
                               THEN [shs EXCEPT ![Min(hit)] = updated]
                               ELSE shs,
                               updated))

\* update_shift stamping the shift's operations with the time of the update.
update_shift_restamps(st, updated) ==
    LET shs == shifts(st.data)
        hit == Positions(shs, updated.id)
        stamped == [updated EXCEPT !.operations =
                       [j \in 1..Len(updated.operations) |->
                           [updated.operations[j] EXCEPT !.ts = st.clock]]]
    IN _save_shifts(st, IF hit # {}
                        THEN [shs EXCEPT ![Min(hit)] = stamped]
                        ELSE Append(shs, stamped))

\* Storage.update_shift
update_shift(st, updated) ==
    LET shs == shifts(st.data)
        hit == Positions(shs, updated.id)
    IN IF hit # {}
       THEN _save_shifts(st, [shs EXCEPT ![Min(hit)] = updated])
       ELSE _save_shifts([st EXCEPT !.calls = Append(@, "shifts.append(updated)")],
                         Append(shs, updated))

\* end_shift_and_create_new without closing the current shift.
end_shift_and_create_new_keeps_open(st, tA, tB, tC) ==
    LET g == get_active_shift(st, tA)
        s1 == g.st
        new_shift == [id |-> s1.uuid, start_ts |-> tC,
                      end_ts |-> None, operations |-> <<>>]
        s2 == _save_shifts([s1 EXCEPT !.uuid = @ + 1, !.clock = tC],
                           Append(shifts(s1.data), new_shift))
        s3 == save([s2 EXCEPT !.data.active_shift_id = new_shift.id])
    IN [st |-> s3, ret |-> new_shift]

\* end_shift_and_create_new without moving active_shift_id to the new shift.
end_shift_and_create_new_stale_pointer(st, tA, tB, tC) ==
    LET g == get_active_shift(st, tA)
        current == g.ret
        s1 == IF current.end_ts = None
              THEN update_shift([g.st EXCEPT !.clock = tB],
                                [current EXCEPT !.end_ts = tB])
              ELSE g.st
        new_shift == [id |-> s1.uuid, start_ts |-> tC,
                      end_ts |-> None, operations |-> <<>>]
        s2 == _save_shifts([s1 EXCEPT !.uuid = @ + 1, !.clock = tC],
                           Append(shifts(s1.data), new_shift))
    IN [st |-> s2, ret |-> new_shift]

\* end_shift_and_create_new stamping end_ts on every shift of the store.
end_shift_and_create_new_restamps(st, tA, tB, tC) ==
    LET g == get_active_shift(st, tA)
        shs == shifts(g.st.data)
        s1 == _save_shifts([g.st EXCEPT !.clock = tB],
                           [i \in 1..Len(shs) |-> [shs[i] EXCEPT !.end_ts = tB]])
        new_shift == [id |-> s1.uuid, start_ts |-> tC,
                      end_ts |-> None, operations |-> <<>>]
        s2 == _save_shifts([s1 EXCEPT !.uuid = @ + 1, !.clock = tC],
                           Append(shifts(s1.data), new_shift))
        s3 == save([s2 EXCEPT !.data.active_shift_id = new_shift.id])
    IN [st |-> s3, ret |-> new_shift]

\* end_shift_and_create_new starting the new shift at the time it read when
\* it looked for the current one.
end_shift_and_create_new_early_start(st, tA, tB, tC) ==
    LET g == get_active_shift(st, tA)
        current == g.ret
        s1 == IF current.end_ts = None
              THEN update_shift([g.st EXCEPT !.clock = tB],
                                [current EXCEPT !.end_ts = tB])
              ELSE g.st
        new_shift == [id |-> s1.uuid, start_ts |-> tA,
                      end_ts |-> None, operations |-> <<>>]
        s2 == _save_shifts([s1 EXCEPT !.uuid = @ + 1, !.clock = tC],
                           Append(shifts(s1.data), new_shift))
        s3 == save([s2 EXCEPT !.data.active_shift_id = new_shift.id])
    IN [st |-> s3, ret |-> new_shift]

\* Storage.end_shift_and_create_new; tA, tB, tC are the readings of now_iso()
\* in get_active_shift, for end_ts and for the new shift's start_ts.
end_shift_and_create_new(st, tA, tB, tC) ==
    LET g == get_active_shift(st, tA)
        current == g.ret
        s1 == IF current.end_ts = None
              THEN update_shift([g.st EXCEPT !.clock = tB],
                                [current EXCEPT !.end_ts = tB])
              ELSE g.st
        new_shift == [id |-> s1.uuid, start_ts |-> tC,
                      end_ts |-> None, operations |-> <<>>]
        s2 == _save_shifts([s1 EXCEPT !.uuid = @ + 1, !.clock = tC],
                           Append(shifts(s1.data), new_shift))
        s3 == save([s2 EXCEPT !.data.active_shift_id = new_shift.id])
    IN [st |-> s3, ret |-> new_shift]

\* reset_current_shift_operations clearing the operations of every shift.
reset_current_shift_operations_clears_all(st, tA) ==
    LET g == get_active_shift(st, tA)
        current == [g.ret EXCEPT !.operations = <<>>]
        shs == shifts(g.st.data)
    IN [st |-> _save_shifts(g.st, [i \in 1..Len(shs) |->
                                      [shs[i] EXCEPT !.operations = <<>>]]),
        ret |-> current]

\* Storage.reset_current_shift_operations
reset_current_shift_operations(st, tA) ==
    LET g == get_active_shift(st, tA)
        current == [g.ret EXCEPT !.operations = <<>>]
    IN [st |-> update_shift(g.st, current), ret |-> current]

\* add_operation_to_active inserting the operation at the head of the list.
add_operation_to_active_prepends(st, amount, comment, tA, tB) ==
    LET g == get_active_shift(st, tA)
        op == [id |-> g.st.uuid, ts |-> tB, amount |-> amount, comment |-> comment]
        current == [g.ret EXCEPT !.operations = <<op>> \o @]
    IN [st |-> update_shift([g.st EXCEPT !.uuid = @ + 1, !.clock = tB], current),
        ret |-> op]

\* add_operation_to_active appending to the first shift of the ledger.
add_operation_to_active_first_shift(st, amount, comment, tA, tB) ==
    LET g == get_active_shift(st, tA)
        first == shifts(g.st.data)[1]
        op == [id |-> g.st.uuid, ts |-> tB, amount |-> amount, comment |-> comment]
        current == [first EXCEPT !.operations = Append(@, op)]
    IN [st |-> update_shift([g.st EXCEPT !.uuid = @ + 1, !.clock = tB], current),
        ret |-> op]

\* Storage.add_operation_to_active; tB is the reading of now_iso() for op.ts.
add_operation_to_active(st, amount, comment, tA, tB) ==
    LET g == get_active_shift(st, tA)
        op == [id |-> g.st.uuid, ts |-> tB, amount |-> amount, comment |-> comment]
        current == [g.ret EXCEPT !.operations = Append(@, op)]
    IN [st |-> update_shift([g.st EXCEPT !.uuid = @ + 1, !.clock = tB], current),
        ret |-> op]

\* delete_operation_from_shift keeping the operation with the id instead of
\* the others.
delete_operation_from_shift_inverted(st, shift_id, op_id) ==
    LET shs == shifts(st.data)
        hit == Positions(shs, shift_id)
    IN IF hit = {} THEN st
       ELSE LET s == shs[Min(hit)]
            IN update_shift(st, [s EXCEPT !.operations =
                                    SelectSeq(@, LAMBDA op : op.id = op_id)])

\* delete_operation_from_shift removing the operation and those after it.
delete_operation_from_shift_truncates(st, shift_id, op_id) ==
    LET shs == shifts(st.data)
        hit == Positions(shs, shift_id)
    IN IF hit = {} THEN st
       ELSE LET s == shs[Min(hit)]
                at == {j \in 1..Len(s.operations) : s.operations[j].id = op_id}
            IN update_shift(st, IF at = {} THEN s
                                ELSE [s EXCEPT !.operations =
                                         SubSeq(@, 1, Min(at) - 1)])

\* delete_operation_from_shift storing the shift as an open one.
delete_operation_from_shift_reopens(st, shift_id, op_id) ==
    LET shs == shifts(st.data)
        hit == Positions(shs, shift_id)
    IN IF hit = {} THEN st
       ELSE LET s == shs[Min(hit)]
            IN update_shift(st, [s EXCEPT !.operations = FilterOps(@, op_id),
                                          !.end_ts = None])

\* Storage.delete_operation_from_shift
delete_operation_from_shift(st, shift_id, op_id) ==
    LET shs == shifts(st.data)
        hit == Positions(shs, shift_id)
    IN IF hit = {} THEN st
       ELSE LET s == shs[Min(hit)]
            IN update_shift(st, [s EXCEPT !.operations = FilterOps(@, op_id)])

\* Storage.delete_operation_from_active
delete_operation_from_active(st, op_id, tA) ==
    LET g == get_active_shift(st, tA)
        current == [g.ret EXCEPT !.operations = FilterOps(@, op_id)]
    IN update_shift(g.st, current)

\* The amounts of the operations of the shifts shs, in the order the loops
\* of totals_all_time visit them.
RECURSIVE Amounts(_)
Amounts(shs) ==
    IF shs = <<>> THEN <<>>
    ELSE [j \in 1..Len(Head(shs).operations) |-> Head(shs).operations[j].amount]
         \o Amounts(Tail(shs))

\* totals_all_time counting the open shifts only.
totals_all_time_open_only(d) ==
    LET a == Amounts(SelectSeq(shifts(d), LAMBDA s : s.end_ts = None))
        inc == SumSeq([k \in 1..Len(a) |-> IF a[k] >= 0 THEN a[k] ELSE 0])
        exp == SumSeq([k \in 1..Len(a) |-> IF a[k] >= 0 THEN 0 ELSE 0 - a[k]])
    IN <<inc, exp, inc - exp>>

\* Storage.totals_all_time: (inc, exp, inc - exp)
totals_all_time(d) ==
    LET a == Amounts(shifts(d))
        inc == SumSeq([k \in 1..Len(a) |-> IF a[k] >= 0 THEN a[k] ELSE 0])
        exp == SumSeq([k \in 1..Len(a) |-> IF a[k] >= 0 THEN 0 ELSE 0 - a[k]])
    IN <<inc, exp, inc - exp>>

\* reset_all_history leaving active_shift_id as it was.
reset_all_history_keeps_pointer(st) ==
    save([st EXCEPT !.data.shifts = <<>>,
                    !.calls = Append(@, "reset_all_history")])

\* Storage.reset_all_history
reset_all_history(st) ==
    save([st EXCEPT !.data.shifts = <<>>, !.data.active_shift_id = None,
                    !.calls = Append(@, "reset_all_history")])

\* The positions <<i, j>> of the operations with the given id, shift by shift.
Places(shs, op_id) ==
    {p \in UNION {{<<i, j>> : j \in 1..Len(shs[i].operations)} :
                     i \in 1..Len(shs)} :
        shs[p[1]].operations[p[2]].id = op_id}

\* find_operation pairing the operation with the last shift of the ledger.
find_operation_last_shift(st, op_id) ==
    LET shs == shifts(st.data)
        hit == Places(shs, op_id)
    IN IF hit = {} THEN [st |-> st, ret_shift |-> NoShift, ret_op |-> NoOperation]
       ELSE LET i == Min({p[1] : p \in hit})
                j == Min({p[2] : p \in {q \in hit : q[1] = i}})
            IN [st |-> st, ret_shift |-> shs[Len(shs)],
                ret_op |-> shs[i].operations[j]]

\* Storage.find_operation: the first shift, in ledger order, with an
\* operation of the id, and the first such operation in it; NoShift and
\* NoOperation stand for the None it returns when there is none.
find_operation(st, op_id) ==
    LET shs == shifts(st.data)
        hit == Places(shs, op_id)
    IN IF hit = {} THEN [st |-> st, ret_shift |-> NoShift, ret_op |-> NoOperation]
       ELSE LET i == Min({p[1] : p \in hit})
                j == Min({p[2] : p \in {q \in hit : q[1] = i}})
            IN [st |-> st, ret_shift |-> shs[i], ret_op |-> shs[i].operations[j]]

\* Storage.get_comments
get_comments(d) == d.settings.comments

----------------------------------------------------------------------------
\* Storage.load and the data file. Storage.data is whatever json.loads
\* returns, a JSON value of any shape; the ledger operators above work on
\* its typed form, which exists when the value has the shape of a ledger.

\* DEFAULT_TOGGLE_HOTKEY
DEFAULT_TOGGLE_HOTKEY ==
    <<"C", "t", "r", "l", "+", "S", "h", "i", "f", "t", "+", "M">>

\* The default app name, "Kalkulyator taksista".
DefaultAppName ==
    <<"K", "a", "l", "k", "u", "l", "y", "a", "t", "o", "r", " ",
      "t", "a", "k", "s", "i", "s", "t", "a">>

\* A list of strings, a comments dict, a list of operations and of shifts as
\* JSON values: the dicts _save_shifts and asdict build.
StrListJson(l) == JArr([i \in 1..Len(l) |-> JStr(l[i])])

CommentsJson(c) ==
    JObj(<<<<"income", StrListJson(c.income)>>,
           <<"expense", StrListJson(c.expense)>>>>)

OptionalJson(x) == IF x = None THEN JNull ELSE JStr(x)

OperationJson(op) ==
    JObj(<<<<"id", JStr(op.id)>>, <<"ts", JStr(op.ts)>>,
           <<"amount", JInt(op.amount)>>, <<"comment", JStr(op.comment)>>>>)

ShiftJson(sd) ==
    JObj(<<<<"id", JStr(sd.id)>>, <<"start_ts", JStr(sd.start_ts)>>,
           <<"end_ts", OptionalJson(sd.end_ts)>>,
           <<"operations",
             JArr([j \in 1..Len(sd.operations) |-> OperationJson(sd.operations[j])])>>>>)

ShiftsJson(shs) == JArr([i \in 1..Len(shs) |-> ShiftJson(shs[i])])

\* default_data(), in full.
DefaultJson ==
    JObj(<<<<"version", JInt(1)>>,
           <<"settings",
             JObj(<<<<"comments", CommentsJson(default_comments)>>,
                    <<"overlay_always_on_top", JBool(TRUE)>>,
                    <<"overlay_opacity", JInt(95)>>,
                    <<"overlay_frameless", JBool(FALSE)>>,
                    <<"app_name", JStr(DefaultAppName)>>,
                    <<"toggle_hotkey", JStr(DEFAULT_TOGGLE_HOTKEY)>>>>)>>,
           <<"shifts", JArr(<<>>)>>,
           <<"active_shift_id", JNull>>>>)

\* Storage.data after the ledger operators left the typed ledger d: they
\* assign data["shifts"] and data["active_shift_id"].
Assigned(raw, d) ==
    setitem(setitem(raw, "shifts", ShiftsJson(d.shifts)),
            "active_shift_id", OptionalJson(d.active_shift_id))

\* The first exception of errors, "none" when there is none.
FirstError(errors) ==
    LET raising == {i \in 1..Len(errors) : errors[i] # "none"}
    IN IF raising = {} THEN "none" ELSE errors[Min(raising)]

\* The elements a for loop over the JSON value v visits: the items of a list,
\* the characters of a string, the keys of a dict.
Elements(v) ==
    IF v.t = "str" THEN [i \in 1..Len(v.v) |-> JStr(<<v.v[i]>>)]
    ELSE IF v.t = "obj" THEN [i \in 1..Len(v.v) |-> JStr(v.v[i][1])]
    ELSE IF v.t = "arr" THEN v.v
    ELSE <<>>

\* What starting a for loop over the JSON value v raises.
IterError(v) == IF v.t \in {"null", "int", "bool"} THEN "TypeError" ELSE "none"

\* What Operation(**od) raises.
OperationError(od) ==
    IF od.t # "obj" THEN "TypeError"
    ELSE IF Keys(od) # {"id", "ts", "amount", "comment"} THEN "TypeError"
    ELSE "none"

\* What the body of the loop of Storage.shifts raises for the element sd.
ShiftError(sd) ==
    IF sd.t # "obj" THEN "AttributeError"
    ELSE LET ops == IF HasKey(sd, "operations") THEN Get(sd, "operations")
                    ELSE JArr(<<>>)
             errors == [j \in 1..Len(Elements(ops)) |->
                           OperationError(Elements(ops)[j])]
         IN IF IterError(ops) # "none" THEN IterError(ops)
            ELSE IF FirstError(errors) # "none" THEN FirstError(errors)
            ELSE IF ~HasKey(sd, "id") \/ ~HasKey(sd, "start_ts") THEN "KeyError"
            ELSE "none"

\* What Storage.shifts raises on Storage.data = raw, "none" when it returns.
shifts_error(raw) ==
    IF raw.t # "obj" THEN "AttributeError"
    ELSE IF ~HasKey(raw, "shifts") THEN "none"
    ELSE IF IterError(Get(raw, "shifts")) # "none"
         THEN IterError(Get(raw, "shifts"))
    ELSE FirstError([i \in 1..Len(Elements(Get(raw, "shifts"))) |->
                        ShiftError(Elements(Get(raw, "shifts"))[i])])

\* What "op.amount >= 0" raises for the operations of the shift sd.
AmountError(sd) ==
    LET ops == IF HasKey(sd, "operations") THEN Get(sd, "operations").v ELSE <<>>
    IN FirstError([j \in 1..Len(ops) |->
                      IF Get(ops[j], "amount").t \in {"int", "bool"}
                      THEN "none" ELSE "TypeError"])

\* What Storage.totals_all_time raises on Storage.data = raw.
totals_all_time_error(raw) ==
    IF shifts_error(raw) # "none" THEN shifts_error(raw)
    ELSE IF ~HasKey(raw, "shifts") THEN "none"
    ELSE IF Get(raw, "shifts").t # "arr" THEN "none"
    ELSE FirstError([i \in 1..Len(Get(raw, "shifts").v) |->
                        AmountError(Get(raw, "shifts").v[i])])

\* raw has the shape of a ledger: Storage.shifts returns, and the fields
\* have the types the dataclasses declare.
WellShaped(raw) ==
    /\ shifts_error(raw) = "none"
    /\ HasKey(raw, "shifts") /\ Get(raw, "shifts").t = "arr"
    /\ HasKey(raw, "active_shift_id")
    /\ Get(raw, "active_shift_id").t \in {"null", "str"}
    /\ HasKey(raw, "settings") /\ Get(raw, "settings").t = "obj"
    /\ HasKey(Get(raw, "settings"), "comments")
    /\ Get(Get(raw, "settings"), "comments") = CommentsJson(default_comments)
    /\ \A i \in 1..Len(Get(raw, "shifts").v) :
          LET sd == Get(raw, "shifts").v[i]
          IN /\ Get(sd, "id").t = "str"
             /\ Get(sd, "start_ts").t = "str"
             /\ HasKey(sd, "end_ts") /\ Get(sd, "end_ts").t \in {"null", "str"}
             /\ HasKey(sd, "operations") /\ Get(sd, "operations").t = "arr"
             /\ \A j \in 1..Len(Get(sd, "operations").v) :
                   LET od == Get(sd, "operations").v[j]
                   IN /\ Get(od, "id").t = "str"
                      /\ Get(od, "ts").t = "str"
                      /\ Get(od, "amount").t = "int"
                      /\ Get(od, "comment").t = "str"

\* None or the string of an optional JSON value.
OptionalOf(j) == IF j.t = "null" THEN None ELSE j.v

\* The typed ledger of a well-shaped Storage.data.
DataOf(raw) ==
    [settings |-> [comments |-> default_comments],
     shifts |->
        [i \in 1..Len(Get(raw, "shifts").v) |->
            LET sd == Get(raw, "shifts").v[i]
            IN [id |-> Get(sd, "id").v,
                start_ts |-> Get(sd, "start_ts").v,
                end_ts |-> OptionalOf(Get(sd, "end_ts")),
                operations |->
                   [j \in 1..Len(Get(sd, "operations").v) |->
                       LET od == Get(sd, "operations").v[j]
                       IN [id |-> Get(od, "id").v, ts |-> Get(od, "ts").v,
                           amount |-> Get(od, "amount").v,
                           comment |-> Get(od, "comment").v]]]],
     active_shift_id |-> OptionalOf(Get(raw, "active_shift_id"))]

\* The data file: it exists or not, and its text.
NoFile == [exists |-> FALSE, text |-> <<>>]
File(text) == [exists |-> TRUE, text |-> text]

\* Storage.save on Storage.data = raw: the text of json.dumps.
write_text(raw) == File(dumps(raw))

\* The settings load fills in.
SettingsDefaults(s) ==
    setdefault(setdefault(setdefault(setdefault(setdefault(s,
        "overlay_always_on_top", JBool(TRUE)),
        "overlay_opacity", JInt(95)),
        "overlay_frameless", JBool(FALSE)),
        "toggle_hotkey", JStr(DEFAULT_TOGGLE_HOTKEY)),
        "app_name", JStr(DefaultAppName))

\* load assigning active_shift_id instead of filling in a missing one.
load_resets_pointer(su) ==
    IF ~su.path.exists
    THEN [su EXCEPT !.op = "load", !.raw = DefaultJson,
                    !.path = write_text(DefaultJson), !.pc = "loaded"]
    ELSE LET r == loads(su.path.text)
             d0 == IF r.ok THEN r.val ELSE DefaultJson
             p0 == IF r.ok THEN su.path ELSE write_text(DefaultJson)
             raises(d) == [su EXCEPT !.op = "load", !.raw = d, !.path = p0,
                                     !.raised = "AttributeError",
                                     !.pc = "crashed"]
         IN IF d0.t # "obj" THEN raises(d0)
            ELSE LET d1 == setdefault(d0, "settings", Get(DefaultJson, "settings"))
                 IN IF Get(d1, "settings").t # "obj" THEN raises(d1)
                    ELSE LET s1 == setdefault(Get(d1, "settings"), "comments",
                                              CommentsJson(default_comments))
                             d2 == setdefault(setitem(d1, "settings", s1),
                                              "shifts", JArr(<<>>))
                             d3 == setitem(d2, "active_shift_id", JNull)
                             d4 == setitem(d3, "settings",
                                           SettingsDefaults(Get(d3, "settings")))
                         IN [su EXCEPT !.op = "load", !.raw = d4,
                                       !.path = write_text(d4), !.pc = "loaded"]

\* Storage.load. su is [path, others, raw, raised, pc, ...]: the data file,
\* the other files of the directory, Storage.data, the exception that
\* escaped and whether the application is starting, running or has crashed.
load(su) ==
    IF ~su.path.exists
    THEN [su EXCEPT !.op = "load", !.raw = DefaultJson,
                    !.path = write_text(DefaultJson), !.pc = "loaded"]
    ELSE LET r == loads(su.path.text)
             d0 == IF r.ok THEN r.val ELSE DefaultJson
             p0 == IF r.ok THEN su.path ELSE write_text(DefaultJson)
             raises(d) == [su EXCEPT !.op = "load", !.raw = d, !.path = p0,
                                     !.raised = "AttributeError",
                                     !.pc = "crashed"]
         IN IF d0.t # "obj" THEN raises(d0)
            ELSE LET d1 == setdefault(d0, "settings", Get(DefaultJson, "settings"))
                 IN IF Get(d1, "settings").t # "obj" THEN raises(d1)
                    ELSE LET s1 == setdefault(Get(d1, "settings"), "comments",
                                              CommentsJson(default_comments))
                             d2 == setdefault(setitem(d1, "settings", s1),
                                              "shifts", JArr(<<>>))
                             d3 == setdefault(d2, "active_shift_id", JNull)
                             d4 == setitem(d3, "settings",
                                           SettingsDefaults(Get(d3, "settings")))
                         IN [su EXCEPT !.op = "load", !.raw = d4,
                                       !.path = write_text(d4), !.pc = "loaded"]

\* No tree: the data file is not a text the program wrote.
NoSource == [some |-> FALSE, raw |-> JNull]
Source(raw) == [some |-> TRUE, raw |-> raw]

\* The start of the application outside the runs that restart it: the store
\* is loaded.
NoStartup ==
    [op |-> "none", path |-> NoFile, others |-> {}, raw |-> JObj(<<>>),
     raised |-> "none", pc |-> "loaded", read |-> NoFile,
     source |-> NoSource, saved |-> NoSource]

----------------------------------------------------------------------------
\* ShiftPage: the entry flow.

\* ShiftPage._on_amount_changed: the comment combo box for an amount text.
_on_amount_changed(text, comments) ==
    LET amt == ParsedAmount[text]
    IN IF amt.none \/ amt.value = 0
       THEN [items |-> <<EnterAmountItem>>, enabled |-> FALSE]
       ELSE [items |-> <<ChooseCommentItem>>
                       \o (IF amt.value > 0 THEN comments.income ELSE comments.expense)
                       \o <<OTHER_COMMENT_TEXT>>,
             enabled |-> TRUE]

\* The message boxes of the shift page.
NoMessage == "none"
BadAmountWarning == "Vvedite korrektnuyu summu (ne 0)."
ChooseCommentWarning == "Vyberite kommentarij."
EmptyCommentWarning == "Kommentarij ne mozhet byt pustym."

\* _save_operation without the check of the manual comment.
_save_operation_unchecked_comment(st, cached, text, index, other, ok, tA, tB) ==
    LET amt == ParsedAmount[text]
        combo == _on_amount_changed(text, get_comments(st.data))
        rejected(m) == [st |-> st, active_shift |-> cached, msg |-> m,
                        ret |-> NoOperation]
    IN IF amt.none \/ amt.value = 0 THEN rejected(BadAmountWarning)
       ELSE IF ~combo.enabled \/ index <= 0 THEN rejected(ChooseCommentWarning)
       ELSE LET chosen == strip(combo.items[index + 1])
                manual == chosen = OTHER_COMMENT_TEXT
                comment == IF manual THEN strip(other) ELSE chosen
            IN IF manual /\ ~ok THEN rejected(NoMessage)
               ELSE LET a == add_operation_to_active(st, amt.value, comment, tA, tB)
                        g == get_active_shift(a.st, tB)
                    IN [st |-> g.st, active_shift |-> g.ret, msg |-> NoMessage,
                        ret |-> a.ret]

\* _save_operation taking the text of the input dialog as it is.
_save_operation_on_unchecked(st, cached, text, combo, index, other, ok, tA, tB) ==
    LET amt == ParsedAmount[text]
        rejected(m) == [st |-> st, active_shift |-> cached, msg |-> m,
                        ret |-> NoOperation]
    IN IF amt.none \/ amt.value = 0 THEN rejected(BadAmountWarning)
       ELSE IF ~combo.enabled \/ index <= 0 THEN rejected(ChooseCommentWarning)
       ELSE LET chosen == strip(combo.items[index + 1])
                manual == chosen = OTHER_COMMENT_TEXT
                comment == IF manual THEN strip(other) ELSE chosen
            IN IF manual /\ ~ok THEN rejected(NoMessage)
               ELSE LET a == add_operation_to_active(st, amt.value, comment, tA, tB)
                        g == get_active_shift(a.st, tB)
                    IN [st |-> g.st, active_shift |-> g.ret, msg |-> NoMessage,
                        ret |-> a.ret]

\* ShiftPage._save_operation. text is the amount field, combo the comment
\* combo box as the last _on_amount_changed left it, index its currentIndex,
\* (other, ok) what the input dialog for a manual comment returns, cached the
\* page's active_shift.
_save_operation_on(st, cached, text, combo, index, other, ok, tA, tB) ==
    LET amt == ParsedAmount[text]
        rejected(m) == [st |-> st, active_shift |-> cached, msg |-> m,
                        ret |-> NoOperation]
    IN IF amt.none \/ amt.value = 0 THEN rejected(BadAmountWarning)
       ELSE IF ~combo.enabled \/ index <= 0 THEN rejected(ChooseCommentWarning)
       ELSE LET chosen == strip(combo.items[index + 1])
                manual == chosen = OTHER_COMMENT_TEXT
                comment == IF manual THEN strip(other) ELSE chosen
            IN IF manual /\ ~ok THEN rejected(NoMessage)
               ELSE IF manual /\ comment = <<>> THEN rejected(EmptyCommentWarning)
               ELSE LET a == add_operation_to_active(st, amt.value, comment, tA, tB)
                        g == get_active_shift(a.st, tB)
                    IN [st |-> g.st, active_shift |-> g.ret, msg |-> NoMessage,
                        ret |-> a.ret]

\* ShiftPage._save_operation where the comment presets have not changed
\* since the amount was typed: the combo box holds what _on_amount_changed
\* makes of the stored presets.
_save_operation(st, cached, text, index, other, ok, tA, tB) ==
    _save_operation_on(st, cached, text,
                       _on_amount_changed(text, get_comments(st.data)),
                       index, other, ok, tA, tB)

\* ShiftPage._load_active_shift
_load_active_shift(st, tA) ==
    LET g == get_active_shift(st, tA)
    IN [st |-> g.st, active_shift |-> g.ret]

\* ShiftPage._new_shift
_new_shift(st, tA, tB, tC) ==
    _load_active_shift(end_shift_and_create_new(st, tA, tB, tC).st, tC)

\* ShiftPage._reset_shift; yes is the answer to the question box.
_reset_shift(st, cached, yes, tA) ==
    IF cached.operations = <<>> \/ ~yes
    THEN [st |-> st, active_shift |-> cached]
    ELSE _load_active_shift(reset_current_shift_operations(st, tA).st, tA)

\* ShiftPage._delete_operation; yes is the answer to the question box.
_delete_operation(st, cached, op_id, yes, tA) ==
    IF ~yes
    THEN [st |-> st, active_shift |-> cached]
    ELSE _load_active_shift(delete_operation_from_active(st, op_id, tA), tA)

----------------------------------------------------------------------------
\* HistoryPage and DayDetailsDialog: the filters and the totals of a day.

\* dt_to_ymd(iso_to_dt(ts)), and iso_to_dt(ts).date(): the day of a timestamp.
dt_to_ymd(ts) == ts \div TicksPerDay

\* sorted putting a shift before the shifts of the same start_ts that the
\* list held before it.
RECURSIVE sorted_ties_reversed(_, _)
sorted_ties_reversed(shs, reverse) ==
    IF shs = <<>> THEN <<>>
    ELSE LET n == Len(shs)
             x == shs[n]
             front == sorted_ties_reversed(SubSeq(shs, 1, n - 1), reverse)
             stays(y) == IF reverse THEN y.start_ts > x.start_ts
                                    ELSE y.start_ts < x.start_ts
             k == Cardinality({i \in 1..Len(front) : stays(front[i])})
         IN SubSeq(front, 1, k) \o <<x>> \o SubSeq(front, k + 1, Len(front))

\* sorted(shs, key=lambda s: s.start_ts, reverse=reverse): a stable sort.
RECURSIVE sorted(_, _)
sorted(shs, reverse) ==
    IF shs = <<>> THEN <<>>
    ELSE LET n == Len(shs)
             x == shs[n]
             front == sorted(SubSeq(shs, 1, n - 1), reverse)
             stays(y) == IF reverse THEN y.start_ts >= x.start_ts
                                    ELSE y.start_ts <= x.start_ts
             k == Cardinality({i \in 1..Len(front) : stays(front[i])})
         IN SubSeq(front, 1, k) \o <<x>> \o SubSeq(front, k + 1, Len(front))

\* Storage.get_shift_numbers_map: the dict from shift id to the position,
\* from 1, in the list sorted by start_ts; a later assignment to the same
\* key replaces the earlier one.
get_shift_numbers_map(d) ==
    LET shs == sorted(shifts(d), FALSE)
    IN [id \in {shs[i].id : i \in 1..Len(shs)} |->
           CHOOSE i \in Positions(shs, id) : \A j \in Positions(shs, id) : j <= i]

\* The filter modes of the history page.
FilterModes == {"all", "today", "yesterday", "week", "month", "custom"}

\* What _current_range returns for the mode "all": (None, None).
NoRange == <<None, None>>

\* _current_range swapping nothing.
_current_range_unswapped(mode, start_date, end_date, today) ==
    IF mode = "today" THEN <<today, today>>
    ELSE IF mode = "yesterday" THEN <<today - 1, today - 1>>
    ELSE IF mode = "week" THEN <<today - 6, today>>
    ELSE IF mode = "month" THEN <<today - (today % DaysPerMonth), today>>
    ELSE IF mode = "custom" THEN <<start_date, end_date>>
    ELSE NoRange

\* HistoryPage._current_range: (start, end); in the mode "custom" it also
\* writes the swapped dates back to the two date fields.
_current_range(mode, start_date, end_date, today) ==
    IF mode = "today" THEN <<today, today>>
    ELSE IF mode = "yesterday" THEN <<today - 1, today - 1>>
    ELSE IF mode = "week" THEN <<today - 6, today>>
    ELSE IF mode = "month" THEN <<today - (today % DaysPerMonth), today>>
    ELSE IF mode = "custom"
         THEN IF end_date < start_date THEN <<end_date, start_date>>
              ELSE <<start_date, end_date>>
    ELSE NoRange

\* _get_filtered_shifts leaving out the shifts of the last day of the range.
_get_filtered_shifts_exclusive(d, range) ==
    LET shs == sorted(shifts(d), TRUE)
    IN IF range = NoRange THEN shs
       ELSE SelectSeq(shs, LAMBDA s : /\ range[1] <= dt_to_ymd(s.start_ts)
                                      /\ dt_to_ymd(s.start_ts) < range[2])

\* HistoryPage._get_filtered_shifts, for the range _current_range returns.
_get_filtered_shifts(d, range) ==
    LET shs == sorted(shifts(d), TRUE)
    IN IF range = NoRange THEN shs
       ELSE SelectSeq(shs, LAMBDA s : /\ range[1] <= dt_to_ymd(s.start_ts)
                                      /\ dt_to_ymd(s.start_ts) <= range[2])

\* The day_map of HistoryPage.refresh, for the filtered shifts shs.
day_map(shs) ==
    [ymd \in {dt_to_ymd(shs[i].start_ts) : i \in 1..Len(shs)} |->
        LET of_day == SelectSeq(shs, LAMBDA s : dt_to_ymd(s.start_ts) = ymd)
        IN [shifts |-> Len(of_day),
            ops |-> SumSeq([i \in 1..Len(of_day) |-> Len(of_day[i].operations)]),
            income |-> SumSeq([i \in 1..Len(of_day) |-> income(of_day[i])]),
            expense |-> SumSeq([i \in 1..Len(of_day) |-> expense(of_day[i])])]]

\* DayDetailsDialog._setup_ui counting the first shift of the day only.
DayDetailsDialog_first_shift(d, ymd) ==
    LET all == sorted(SelectSeq(shifts(d),
                                LAMBDA s : dt_to_ymd(s.start_ts) = ymd), FALSE)
        shs == IF all = <<>> THEN <<>> ELSE <<all[1]>>
        day_income == SumSeq([i \in 1..Len(shs) |-> income(shs[i])])
        day_expense == SumSeq([i \in 1..Len(shs) |-> expense(shs[i])])
    IN [ymd |-> ymd, shifts |-> shs, day_income |-> day_income,
        day_expense |-> day_expense, day_total |-> day_income - day_expense]

\* DayDetailsDialog._setup_ui: the shifts of the day and the day's totals.
DayDetailsDialog(d, ymd) ==
    LET shs == sorted(SelectSeq(shifts(d),
                                LAMBDA s : dt_to_ymd(s.start_ts) = ymd), FALSE)
        day_income == SumSeq([i \in 1..Len(shs) |-> income(shs[i])])
        day_expense == SumSeq([i \in 1..Len(shs) |-> expense(shs[i])])
    IN [ymd |-> ymd, shifts |-> shs, day_income |-> day_income,
        day_expense |-> day_expense, day_total |-> day_income - day_expense]

\* No day details dialog is open.
NoDetails ==
    [ymd |-> None, shifts |-> <<>>, day_income |-> 0, day_expense |-> 0,
     day_total |-> 0]

\* The history page before its first refresh.
NoHistory ==
    [op |-> "none", filter_mode |-> "all", start_date |-> 0, end_date |-> 0,
     entered |-> <<0, 0>>, range |-> NoRange, shifts |-> <<>>,
     shift_numbers |-> << >>, day_map |-> << >>, details |-> NoDetails]

\* HistoryPage.refresh; today is what date.today() returns.
refresh(h, d, today) ==
    LET range == _current_range(h.filter_mode, h.start_date, h.end_date, today)
        shs == _get_filtered_shifts(d, range)
    IN [h EXCEPT !.op = "refresh",
                 !.entered = IF h.filter_mode = "custom"
                             THEN <<h.start_date, h.end_date>> ELSE <<0, 0>>,
                 !.start_date = IF h.filter_mode = "custom" THEN range[1] ELSE @,
                 !.end_date = IF h.filter_mode = "custom" THEN range[2] ELSE @,
                 !.range = range,
                 !.shifts = shs,
                 !.shift_numbers = get_shift_numbers_map(d),
                 !.day_map = day_map(shs),
                 !.details = NoDetails]

\* HistoryPage._set_filter_mode
_set_filter_mode(h, d, mode, today) ==
    IF mode # "custom"
    THEN refresh([h EXCEPT !.filter_mode = mode], d, today)
    ELSE [h EXCEPT !.op = "_set_filter_mode", !.filter_mode = mode]

\* HistoryPage._open_day
_open_day(h, d, ymd) ==
    [h EXCEPT !.op = "_open_day", !.details = DayDetailsDialog(d, ymd)]

----------------------------------------------------------------------------
\* SettingsPage: the reset of the whole history.

\* The word the second dialog of _reset_all asks for, "UDALIT".
ConfirmWord == <<"U", "D", "A", "L", "I", "T">>

\* What the user types into that dialog.
ConfirmTexts ==
    {ConfirmWord, <<" ", "u", "d", "a", "l", "i", "t", " ">>, <<"D", "A">>}

CancelledInfo == "Udalenie otmeneno."
DoneInfo == "Istoriya uspeshno udalena."

\* _reset_all resetting although the input dialog was cancelled.
_reset_all_ignores_cancel(st, cached, yes, text, ok, tA) ==
    IF ~yes THEN [st |-> st, active_shift |-> cached, msg |-> NoMessage]
    ELSE IF upper(strip(text)) # ConfirmWord
    THEN [st |-> st, active_shift |-> cached, msg |-> CancelledInfo]
    ELSE LET l == _load_active_shift(reset_all_history(st), tA)
         IN [st |-> l.st, active_shift |-> l.active_shift, msg |-> DoneInfo]

\* SettingsPage._reset_all, with after_reset_cb = MainWindow.open_shift; yes
\* is the answer to the question box, (text, ok) what the input dialog
\* returns.
_reset_all(st, cached, yes, text, ok, tA) ==
    IF ~yes THEN [st |-> st, active_shift |-> cached, msg |-> NoMessage]
    ELSE IF ~ok \/ upper(strip(text)) # ConfirmWord
    THEN [st |-> st, active_shift |-> cached, msg |-> CancelledInfo]
    ELSE LET l == _load_active_shift(reset_all_history(st), tA)
         IN [st |-> l.st, active_shift |-> l.active_shift, msg |-> DoneInfo]

----------------------------------------------------------------------------
\* MainWindow: the page the stacked widget shows, the modal dialogs that are
\* open (the last one on top), and the widgets whose content outlives a
\* handler: the amount field and the comment combo box of the shift page,
\* the two preset lists of the settings page.

\* The comment combo box ShiftPage._build_ui creates: no items, disabled.
NoCombo == [items |-> <<>>, enabled |-> FALSE]

NoUi ==
    [page |-> "shift", dialogs |-> <<>>, amount_text |-> <<>>, combo |-> NoCombo,
     income_list |-> <<>>, expense_list |-> <<>>]

\* str.lower
lower(t) ==
    [i \in 1..Len(t) |->
        IF \E k \in 1..Len(UpperCase) : UpperCase[k] = t[i]
        THEN LowerCase[CHOOSE k \in 1..Len(UpperCase) : UpperCase[k] = t[i]]
        ELSE t[i]]

\* SettingsPage.refresh: the two list widgets show the stored presets.
settings_refresh(u, d) ==
    [u EXCEPT !.income_list = get_comments(d).income,
              !.expense_list = get_comments(d).expense]

DuplicateWarning == "Takoj kommentarij uzhe sushchestvuet."
SelectCommentWarning == "Vyberite kommentarij dlya udaleniya."
SavedInfo == "Nastrojki uspeshno sohraneny."

\* SettingsPage._add_comment; (text, ok) is what the input dialog returns.
_add_comment(u, is_income, text, ok) ==
    LET lst == IF is_income THEN u.income_list ELSE u.expense_list
        added == Append(lst, strip(text))
    IN IF ~ok \/ strip(text) = <<>> THEN [ui |-> u, msg |-> NoMessage]
       ELSE IF \E i \in 1..Len(lst) : lower(lst[i]) = lower(strip(text))
       THEN [ui |-> u, msg |-> DuplicateWarning]
       ELSE [ui |-> IF is_income THEN [u EXCEPT !.income_list = added]
                    ELSE [u EXCEPT !.expense_list = added],
             msg |-> NoMessage]

\* SettingsPage._delete_comment; row is the row of the list's current item,
\* 0 when it has none, yes the answer to the question box.
_delete_comment(u, is_income, row, yes) ==
    LET lst == IF is_income THEN u.income_list ELSE u.expense_list
        taken == [i \in 1..(Len(lst) - 1) |-> IF i < row THEN lst[i] ELSE lst[i + 1]]
    IN IF row = 0 THEN [ui |-> u, msg |-> SelectCommentWarning]
       ELSE IF ~yes THEN [ui |-> u, msg |-> NoMessage]
       ELSE [ui |-> IF is_income THEN [u EXCEPT !.income_list = taken]
                    ELSE [u EXCEPT !.expense_list = taken],
             msg |-> NoMessage]

\* The texts of a list widget, stripped, without the empty ones.
Stripped(lst) ==
    SelectSeq([i \in 1..Len(lst) |-> strip(lst[i])], LAMBDA x : x # <<>>)

\* SettingsPage._save. set_app_name, set_overlay_settings and
\* set_toggle_hotkey assign settings the ledger does not hold, and each
\* calls Storage.save.
_save(st, u) ==
    LET income_list == IF Stripped(u.income_list) = <<>>
                       THEN default_comments.income
                       ELSE Stripped(u.income_list)
        expense_list == IF Stripped(u.expense_list) = <<>>
                        THEN default_comments.expense
                        ELSE Stripped(u.expense_list)
    IN save(save(set_comments(save(st), income_list, expense_list)))

\* open_shift showing the shift page without loading the active shift.
open_shift_without_load(st, u, cached, tA) ==
    [st |-> st, ui |-> [u EXCEPT !.page = "shift"], active_shift |-> cached]

\* MainWindow.open_shift; cached is ShiftPage.active_shift before it.
open_shift(st, u, cached, tA) ==
    LET l == _load_active_shift(st, tA)
    IN [st |-> l.st, ui |-> [u EXCEPT !.page = "shift"],
        active_shift |-> l.active_shift]

\* Storage.get_shift_by_id, NoShift for None.
get_shift_by_id(d, shift_id) ==
    LET hit == Positions(shifts(d), shift_id)
    IN IF hit = {} THEN NoShift ELSE shifts(d)[Min(hit)]

\* A modal dialog: an OperationDetailsDialog with its shift and op, a
\* ShiftDetailsDialog with its shift, a DayDetailsDialog with its day and
\* the shifts of its cards.
OperationDialog(shift, op) ==
    [kind |-> "operation", shift |-> shift, op |-> op, ymd |-> None, cards |-> <<>>]
ShiftDialog(shift) ==
    [kind |-> "shift", shift |-> shift, op |-> NoOperation, ymd |-> None,
     cards |-> <<>>]
DayDialog(d, ymd) ==
    [kind |-> "day", shift |-> NoShift, op |-> NoOperation, ymd |-> ymd,
     cards |-> DayDetailsDialog(d, ymd).shifts]

\* The dialog on top closes and the handler that ran its exec() goes on:
\* ShiftPage._open_operation loads the active shift,
\* ShiftDetailsDialog._open_operation reads its shift again, _open_shift and
\* _open_day return.
dialog_closed(st, u, cached, tA) ==
    LET n == Len(u.dialogs)
        top == u.dialogs[n]
        rest == SubSeq(u.dialogs, 1, n - 1)
        updated_shift == get_shift_by_id(st.data, rest[n - 1].shift.id)
    IN IF top.kind # "operation"
       THEN [st |-> st, ui |-> [u EXCEPT !.dialogs = rest], active_shift |-> cached]
       ELSE IF rest = <<>>
       THEN LET l == _load_active_shift(st, tA)
            IN [st |-> l.st, ui |-> [u EXCEPT !.dialogs = rest],
                active_shift |-> l.active_shift]
       ELSE [st |-> st,
             ui |-> [u EXCEPT !.dialogs =
                        IF updated_shift = NoShift THEN rest
                        ELSE [rest EXCEPT ![n - 1].shift = updated_shift]],
             active_shift |-> cached]

\* OperationDetailsDialog._delete; yes is the answer to the question box.
OperationDetailsDialog_delete(st, u, cached, yes, tA) ==
    LET top == u.dialogs[Len(u.dialogs)]
    IN IF ~yes THEN [st |-> st, ui |-> u, active_shift |-> cached]
       ELSE dialog_closed(delete_operation_from_shift(st, top.shift.id, top.op.id),
                          u, cached, tA)

\* ShiftPage._open_operation and ShiftDetailsDialog._open_operation up to
\* dlg.exec().
_open_operation(st, u, cached, op_id, tA) ==
    LET found == find_operation(st, op_id)
    IN IF found.ret_op = NoOperation
       THEN IF u.dialogs = <<>>
            THEN LET l == _load_active_shift(st, tA)
                 IN [st |-> l.st, ui |-> u, active_shift |-> l.active_shift]
            ELSE [st |-> st, ui |-> u, active_shift |-> cached]
       ELSE [st |-> st,
             ui |-> [u EXCEPT !.dialogs =
                        Append(@, OperationDialog(found.ret_shift, found.ret_op))],
             active_shift |-> cached]

\* HistoryPage._open_shift and DayDetailsDialog._open_shift up to exec().
_open_shift(st, u, shift_id) ==
    LET s == get_shift_by_id(st.data, shift_id)
    IN IF s = NoShift THEN u ELSE [u EXCEPT !.dialogs = Append(@, ShiftDialog(s))]

----------------------------------------------------------------------------
\* The state machine: one action per call of a store method.

\* The store state a call starts from.
Store ==
    [data |-> data, file |-> file, writes |-> <<>>, uuid |-> next_uuid,
     clock |-> clock, calls |-> <<>>, disk |-> <<>>, failed |-> 0,
     raised |-> "none"]

NoArgs ==
    [amount |-> 0, comment |-> <<>>, shift_id |-> None, op_id |-> None,
     text |-> <<>>, index |-> 0, other |-> <<>>, ok |-> FALSE, yes |-> FALSE]

ShiftIds(d) == {d.shifts[i].id : i \in 1..Len(d.shifts)}

\* The shift the shift page shows for the store d after _load_active_shift.
ActiveOrNoShift(d) ==
    LET hit == Positions(shifts(d), d.active_shift_id)
    IN IF hit = {} THEN NoShift ELSE shifts(d)[Min(hit)]

OperationIds(d) ==
    UNION {{d.shifts[i].operations[j].id : j \in 1..Len(d.shifts[i].operations)} :
           i \in 1..Len(d.shifts)}

\* The ids a caller names: those in the store, and one that is in no shift
\* (an id no longer, or not yet, in the store).
ShiftIdArgs == ShiftIds(data) \cup {next_uuid}
OperationIdArgs == OperationIds(data) \cup {next_uuid}

\* The clock readings a call can see: the clock does not go backwards.
Readings == clock..MaxClock

\* The readings get_active_shift can see; it reads the clock only when it
\* creates a shift.
ReadingsA ==
    IF get_active_shift(Store, clock).st.uuid # next_uuid THEN Readings ELSE {clock}

\* The effect of a call on the store: st is the store state it ends in.
Effect(op, args, st, ret_shift, ret_op) ==
    /\ st.uuid <= MaxUuid + 1
    /\ data' = st.data
    /\ file' = st.file
    /\ next_uuid' = st.uuid
    /\ clock' = st.clock
    /\ last' = [op |-> op, args |-> args, pre |-> data, pre_file |-> file,
                pre_seen |-> seen_shift_ids, writes |-> st.writes,
                calls |-> st.calls, failed |-> st.failed,
                raised |-> st.raised,
                ret_shift |-> ret_shift, ret_op |-> ret_op]
    /\ seen_shift_ids' = seen_shift_ids \cup ShiftIds(st.data)

\* The effect of a call on the state, where the window plays no part.
Commit(op, args, st, ret_shift, ret_op) ==
    /\ Effect(op, args, st, ret_shift, ret_op)
    /\ UNCHANGED <<history, ui>>

Init ==
    /\ data = default_data
    /\ file = default_data
    /\ next_uuid = 1
    /\ clock = 0
    /\ last = [op |-> "load", args |-> NoArgs, pre |-> default_data,
               pre_file |-> default_data, pre_seen |-> {}, writes |-> <<>>,
               calls |-> <<>>, failed |-> 0, raised |-> "none",
               ret_shift |-> NoShift, ret_op |-> NoOperation]
    /\ seen_shift_ids = {}
    /\ active_shift = NoShift
    /\ msg = NoMessage
    /\ history = NoHistory
    /\ startup = NoStartup
    /\ ui = NoUi

GetActiveShift ==
    /\ \E tA \in ReadingsA :
        \E r \in {get_active_shift(Store, tA)} :
           Commit("get_active_shift", NoArgs, r.st, r.ret, NoOperation)
    /\ UNCHANGED <<active_shift, msg, startup>>

EndShiftAndCreateNew ==
    /\ \E tA \in ReadingsA : \E tB \in tA..MaxClock : \E tC \in tB..MaxClock :
        \E r \in {end_shift_and_create_new(Store, tA, tB, tC)} :
           Commit("end_shift_and_create_new", NoArgs, r.st, r.ret, NoOperation)
    /\ UNCHANGED <<active_shift, msg, startup>>

ResetCurrentShiftOperations ==
    /\ \E tA \in ReadingsA :
        \E r \in {reset_current_shift_operations(Store, tA)} :
           Commit("reset_current_shift_operations", NoArgs, r.st, r.ret,
                  NoOperation)
    /\ UNCHANGED <<active_shift, msg, startup>>

AddOperationToActive ==
    /\ \E in \in ValidInputs : \E tA \in ReadingsA : \E tB \in tA..MaxClock :
        \E r \in {add_operation_to_active(Store, in[1], in[2], tA, tB)} :
           Commit("add_operation_to_active",
                  [NoArgs EXCEPT !.amount = in[1], !.comment = in[2]],
                  r.st, NoShift, r.ret)
    /\ UNCHANGED <<active_shift, msg, startup>>

DeleteOperationFromShift ==
    /\ \E shift_id \in ShiftIdArgs : \E op_id \in OperationIdArgs :
        \E st \in {delete_operation_from_shift(Store, shift_id, op_id)} :
           Commit("delete_operation_from_shift",
                  [NoArgs EXCEPT !.shift_id = shift_id, !.op_id = op_id],
                  st, NoShift, NoOperation)
    /\ UNCHANGED <<active_shift, msg, startup>>

DeleteOperationFromActive ==
    /\ \E op_id \in OperationIdArgs : \E tA \in ReadingsA :
        \E st \in {delete_operation_from_active(Store, op_id, tA)} :
           Commit("delete_operation_from_active", [NoArgs EXCEPT !.op_id = op_id],
                  st, NoShift, NoOperation)
    /\ UNCHANGED <<active_shift, msg, startup>>

ResetAllHistory ==
    /\ \E st \in {reset_all_history(Store)} :
           Commit("reset_all_history", NoArgs, st, NoShift, NoOperation)
    /\ UNCHANGED <<active_shift, msg, startup>>

\* The ids find_operation is asked for: those of the operations, those of the
\* shifts, and one that is not in the store.
FindOperation ==
    /\ \E op_id \in OperationIdArgs \cup ShiftIds(data) :
        \E r \in {find_operation(Store, op_id)} :
           Commit("find_operation", [NoArgs EXCEPT !.op_id = op_id], r.st,
                  r.ret_shift, r.ret_op)
    /\ UNCHANGED <<active_shift, msg, startup>>

Next ==
    \/ FindOperation
    \/ GetActiveShift
    \/ EndShiftAndCreateNew
    \/ ResetCurrentShiftOperations
    \/ AddOperationToActive
    \/ DeleteOperationFromShift
    \/ DeleteOperationFromActive
    \/ ResetAllHistory

\* Any sequence of store calls, from the default store.
Spec == Init /\ [][Next]_vars

----------------------------------------------------------------------------
\* The state machine of the shift page: one action per user action.

\* The combo box items the user picks among: the first, the second, the last.
ComboIndexes(text) ==
    LET n == Len(_on_amount_changed(text, get_comments(data)).items)
    IN {0, n - 1} \cup (IF n > 1 THEN {1} ELSE {})

\* main: Storage.load without a data file, then MainWindow() shows the shift
\* page, which loads the active shift.
InitUI ==
    \E tA \in 0..MaxClock :
        LET st0 == [data |-> default_data, file |-> default_data,
                    writes |-> <<>>, uuid |-> 1, clock |-> 0, calls |-> <<>>,
                    disk |-> <<>>, failed |-> 0, raised |-> "none"]
            r == _load_active_shift(st0, tA)
        IN /\ data = r.st.data
           /\ file = r.st.file
           /\ next_uuid = r.st.uuid
           /\ clock = r.st.clock
           /\ last = [op |-> "_load_active_shift", args |-> NoArgs,
                      pre |-> default_data, pre_file |-> default_data,
                      pre_seen |-> {}, writes |-> r.st.writes,
                      calls |-> <<>>, failed |-> 0, raised |-> "none",
                      ret_shift |-> r.active_shift, ret_op |-> NoOperation]
           /\ seen_shift_ids = ShiftIds(r.st.data)
           /\ active_shift = r.active_shift
           /\ msg = NoMessage
           /\ history = NoHistory
           /\ startup = NoStartup
           /\ ui = NoUi

\* What the input dialog returns; it opens only for the last combo item.
DialogAnswers(text, index) ==
    IF index > 0 /\ index = Len(_on_amount_changed(text, get_comments(data)).items) - 1
    THEN OtherTexts \X BOOLEAN
    ELSE {<<<<>>, FALSE>>}

\* The readings _save_operation can see for the operation's timestamp; it
\* reads the clock only when the input is accepted.
SaveReadings(text, index, other, ok, tA) ==
    IF _save_operation(Store, active_shift, text, index, other, ok, tA, tA).ret
           = NoOperation
    THEN {tA}
    ELSE tA..MaxClock

SaveOperation ==
    \E text \in AmountTexts : \E index \in ComboIndexes(text) :
    \E answer \in DialogAnswers(text, index) :
    \E other \in {answer[1]} : \E ok \in {answer[2]} :
    \E tA \in ReadingsA :
    \E tB \in SaveReadings(text, index, other, ok, tA) :
        \E r \in {_save_operation(Store, active_shift, text, index, other, ok, tA, tB)} :
           /\ Commit("_save_operation",
                     [NoArgs EXCEPT !.text = text, !.index = index,
                                    !.other = other, !.ok = ok],
                     r.st, NoShift, r.ret)
           /\ active_shift' = r.active_shift
           /\ msg' = r.msg
           /\ UNCHANGED startup

NewShift ==
    \E tA \in ReadingsA : \E tB \in tA..MaxClock : \E tC \in tB..MaxClock :
        \E r \in {_new_shift(Store, tA, tB, tC)} :
           /\ Commit("_new_shift", NoArgs, r.st, NoShift, NoOperation)
           /\ active_shift' = r.active_shift
           /\ msg' = NoMessage
           /\ UNCHANGED startup

ResetShift ==
    \E yes \in BOOLEAN : \E tA \in ReadingsA :
        \E r \in {_reset_shift(Store, active_shift, yes, tA)} :
           /\ Commit("_reset_shift", [NoArgs EXCEPT !.ok = yes], r.st,
                     NoShift, NoOperation)
           /\ active_shift' = r.active_shift
           /\ msg' = NoMessage
           /\ UNCHANGED startup

\* The context menu of an operation card of the shift page.
DeleteOperation ==
    \E i \in 1..Len(active_shift.operations) : \E yes \in BOOLEAN :
    \E tA \in ReadingsA :
        \E op_id \in {active_shift.operations[i].id} :
        \E r \in {_delete_operation(Store, active_shift, op_id, yes, tA)} :
           /\ Commit("_delete_operation",
                     [NoArgs EXCEPT !.op_id = op_id, !.ok = yes], r.st,
                     NoShift, NoOperation)
           /\ active_shift' = r.active_shift
           /\ msg' = NoMessage
           /\ UNCHANGED startup

\* What the two dialogs of _reset_all return; the input dialog opens only
\* after the answer Yes.
ResetAnswers ==
    {<<FALSE, <<>>, FALSE>>}
        \cup {<<TRUE, text, TRUE>> : text \in ConfirmTexts}
        \cup {<<TRUE, ConfirmWord, FALSE>>}

\* The readings _reset_all can see: it reads the clock only when it resets.
ResetReadings(yes, text, ok) ==
    IF _reset_all(Store, active_shift, yes, text, ok, clock).st.calls = <<>>
    THEN {clock}
    ELSE Readings

\* The reset button of the settings page.
ResetAll ==
    \E answer \in ResetAnswers :
    \E yes \in {answer[1]} : \E text \in {answer[2]} : \E ok \in {answer[3]} :
    \E tA \in ResetReadings(yes, text, ok) :
        \E r \in {_reset_all(Store, active_shift, yes, text, ok, tA)} :
           /\ Commit("_reset_all",
                     [NoArgs EXCEPT !.yes = yes, !.other = text, !.ok = ok],
                     r.st, NoShift, NoOperation)
           /\ active_shift' = r.active_shift
           /\ msg' = r.msg
           /\ UNCHANGED startup

NextUI ==
    \/ SaveOperation
    \/ NewShift
    \/ ResetShift
    \/ DeleteOperation
    \/ ResetAll

\* Any sequence of user actions on the shift page and of resets on the
\* settings page, from the first start.
SpecUI == InitUI /\ [][NextUI]_vars

----------------------------------------------------------------------------
\* The state machine of the history page: one action per user action, on a
\* ledger that store calls have built.

\* The (amount, comment) pairs of the operations of those ledgers.
HistoryInputs == {<<1000, Zakaz>>, <<0 - 200, Benzin>>}

\* The operations entered into one shift, in order.
HistoryEntries ==
    {<<>>} \cup {<<in>> : in \in HistoryInputs}
           \cup {<<<<1000, Zakaz>>, <<0 - 200, Benzin>>>>}

\* The store after add_operation_to_active for each of ins, at the time t.
RECURSIVE AddAll(_, _, _)
AddAll(st, ins, t) ==
    IF ins = <<>> THEN st
    ELSE AddAll(add_operation_to_active(st, Head(ins)[1], Head(ins)[2], t, t).st,
                Tail(ins), t)

\* The store after n shifts: the first starts at t1 and gets the operations
\* ins1 at t2, when it is ended and the second starts, which gets ins2 at t3.
Ledger(n, t1, t2, t3, ins1, ins2) ==
    LET st0 == [data |-> default_data, file |-> default_data, writes |-> <<>>,
                uuid |-> 1, clock |-> 0, calls |-> <<>>,
                disk |-> <<>>, failed |-> 0, raised |-> "none"]
        s1 == AddAll(get_active_shift(st0, t1).st, ins1, t2)
        s2 == AddAll(end_shift_and_create_new(s1, t2, t2, t2).st, ins2, t3)
    IN IF n = 0 THEN st0 ELSE IF n = 1 THEN s1 ELSE s2

\* The days the user and date.today() name.
Days == 0..dt_to_ymd(MaxClock)

InitHistory ==
    \E n \in 0..2 :
    \E t1 \in 0..MaxClock : \E t2 \in t1..MaxClock : \E t3 \in t2..MaxClock :
    \E ins1 \in HistoryEntries : \E ins2 \in HistoryEntries :
    \E today \in Days :
        LET st == Ledger(n, t1, t2, t3, ins1, ins2)
        IN /\ data = st.data
           /\ file = st.file
           /\ next_uuid = st.uuid
           /\ clock = st.clock
           /\ last = [op |-> "load", args |-> NoArgs, pre |-> st.data,
                      pre_file |-> st.file, pre_seen |-> ShiftIds(st.data),
                      writes |-> <<>>, calls |-> <<>>, failed |-> 0,
                      raised |-> "none",
                      ret_shift |-> NoShift, ret_op |-> NoOperation]
           /\ seen_shift_ids = ShiftIds(st.data)
           /\ active_shift = ActiveOrNoShift(st.data)
           /\ msg = NoMessage
           /\ history = [NoHistory EXCEPT !.start_date = today,
                                          !.end_date = today,
                                          !.entered = <<0, 0>>]
           /\ startup = NoStartup
           /\ ui = NoUi

\* MainWindow.open_history, and the button that applies a custom range.
HistoryRefresh ==
    /\ \E today \in Days : history' = refresh(history, data, today)
    /\ UNCHANGED <<ui, data, file, next_uuid, clock, last, seen_shift_ids,
                   active_shift, msg, startup>>

\* The buttons of the filter modes.
SetFilterMode ==
    /\ \E mode \in FilterModes : \E today \in Days :
          history' = _set_filter_mode(history, data, mode, today)
    /\ UNCHANGED <<ui, data, file, next_uuid, clock, last, seen_shift_ids,
                   active_shift, msg, startup>>

\* The two date fields, enabled in the mode "custom".
EditDates ==
    /\ history.filter_mode = "custom"
    /\ \E start \in Days : \E end \in Days :
          history' = [history EXCEPT !.op = "edit_dates",
                                     !.start_date = start, !.end_date = end]
    /\ UNCHANGED <<ui, data, file, next_uuid, clock, last, seen_shift_ids,
                   active_shift, msg, startup>>

\* A click on one of the day cards the page shows.
OpenDay ==
    /\ \E ymd \in DOMAIN history.day_map :
          history' = _open_day(history, data, ymd)
    /\ UNCHANGED <<ui, data, file, next_uuid, clock, last, seen_shift_ids,
                   active_shift, msg, startup>>

NextHistory ==
    \/ HistoryRefresh
    \/ SetFilterMode
    \/ EditDates
    \/ OpenDay

\* Any sequence of user actions on the history page.
SpecHistory == InitHistory /\ [][NextHistory]_vars

----------------------------------------------------------------------------
\* The state machine of the start of the application: Storage.load on the
\* data file it finds, the reads and calls that follow, and the restart.

\* The operations entered into one shift of the ledgers the data file holds.
LoadEntries ==
    {<<>>, <<<<1000, Zakaz>>>>, <<<<1000, Zakaz>>, <<0 - 200, Benzin>>>>}

\* The stores whose Storage.data the program saved before it exited.
SavedStores ==
    {Ledger(n, 0, t2, MaxClock, ins1, ins2) :
        n \in 0..2, t2 \in 0..MaxClock, ins1 \in LoadEntries, ins2 \in LoadEntries}

\* A shift record and an operation record as the program writes them.
GoodOperation ==
    OperationJson([id |-> 2, ts |-> 0, amount |-> 1000, comment |-> Zakaz])
GoodShift(ops) ==
    JObj(<<<<"id", JStr(1)>>, <<"start_ts", JStr(0)>>, <<"end_ts", JNull>>,
           <<"operations", JArr(ops)>>>>)

\* Parseable JSON that is no ledger the program wrote: the top level is not
\* an object, settings is not an object, shifts is not a list, a shift
\* record lacks id or start_ts, an operation record lacks a field or has one
\* too many, an amount is a string; and two that only lack keys.
OtherJson ==
    {JArr(<<>>),
     setitem(DefaultJson, "settings", JArr(<<>>)),
     setitem(DefaultJson, "shifts", JNull),
     setitem(DefaultJson, "shifts",
             JArr(<<JObj(<<<<"start_ts", JStr(0)>>, <<"operations", JArr(<<>>)>>>>)>>)),
     setitem(DefaultJson, "shifts",
             JArr(<<JObj(<<<<"id", JStr(1)>>, <<"operations", JArr(<<>>)>>>>)>>)),
     setitem(DefaultJson, "shifts",
             JArr(<<GoodShift(<<JObj(<<<<"id", JStr(2)>>, <<"ts", JStr(0)>>,
                                       <<"amount", JInt(1000)>>>>)>>)>>)),
     setitem(DefaultJson, "shifts",
             JArr(<<GoodShift(<<setitem(GoodOperation, "note", JStr(Zakaz))>>)>>)),
     setitem(DefaultJson, "shifts",
             JArr(<<GoodShift(<<setitem(GoodOperation, "amount", JStr(Zakaz))>>)>>)),
     JObj(<<>>),
     JObj(<<<<"shifts", JArr(<<GoodShift(<<GoodOperation>>)>>)>>,
            <<"active_shift_id", JStr(1)>>>>)}

\* What the application finds at its start: no data file, the text it saved
\* before, that text cut short, an empty file, or other JSON.
StartContents ==
    {[path |-> NoFile, saved |-> NoSource, uuid |-> 1, clock |-> 0]}
    \cup {[path |-> write_text(Assigned(DefaultJson, st.data)),
           saved |-> Source(Assigned(DefaultJson, st.data)),
           uuid |-> st.uuid, clock |-> st.clock] : st \in SavedStores}
    \cup {[path |-> File(SubSeq(dumps(Assigned(DefaultJson, st.data)), 1,
                                Len(dumps(Assigned(DefaultJson, st.data))) - 1)),
           saved |-> NoSource, uuid |-> st.uuid, clock |-> st.clock] :
              st \in SavedStores}
    \cup {[path |-> File(<<>>), saved |-> NoSource, uuid |-> 1, clock |-> 0]}
    \cup {[path |-> write_text(j), saved |-> NoSource, uuid |-> 3, clock |-> 0] :
              j \in OtherJson}

\* Storage.__init__: self.data = {}
InitLoad ==
    \E c \in StartContents :
        /\ data = default_data
        /\ file = default_data
        /\ next_uuid = c.uuid
        /\ clock = c.clock
        /\ last = [op |-> "__init__", args |-> NoArgs, pre |-> default_data,
                   pre_file |-> default_data, pre_seen |-> {}, writes |-> <<>>,
                   calls |-> <<>>, failed |-> 0, raised |-> "none",
                   ret_shift |-> NoShift, ret_op |-> NoOperation]
        /\ seen_shift_ids = {}
        /\ active_shift = NoShift
        /\ msg = NoMessage
        /\ history = NoHistory
        /\ startup = [NoStartup EXCEPT !.path = c.path, !.saved = c.saved,
                                       !.pc = "start"]
        /\ ui = NoUi

\* main: storage.load()
Load ==
    /\ startup.pc = "start"
    /\ \E su \in {load(startup)} :
        \E d \in {IF su.pc = "loaded" /\ WellShaped(su.raw)
                   THEN DataOf(su.raw) ELSE default_data} :
          /\ startup' = [su EXCEPT !.read = startup.path,
                                   !.source = startup.saved,
                                   !.saved = IF su.pc = "loaded"
                                             THEN Source(su.raw) ELSE @]
          /\ data' = d
          /\ file' = d
          /\ last' = [op |-> "load", args |-> NoArgs, pre |-> data,
                      pre_file |-> file, pre_seen |-> seen_shift_ids,
                      writes |-> <<>>, calls |-> <<>>, failed |-> 0,
                      raised |-> "none",
                      ret_shift |-> NoShift, ret_op |-> NoOperation]
          /\ seen_shift_ids' = seen_shift_ids \cup ShiftIds(d)
    /\ UNCHANGED <<next_uuid, clock, active_shift, msg, history, ui>>

\* The application after a read of the loaded store: the read returns, or
\* its exception escapes.
AfterRead(op, error) ==
    [startup EXCEPT !.op = op, !.raised = error,
                    !.pc = IF error = "none" THEN "loaded" ELSE "crashed"]

ReadShifts ==
    /\ startup.pc = "loaded"
    /\ startup' = AfterRead("shifts", shifts_error(startup.raw))
    /\ UNCHANGED <<ui, data, file, next_uuid, clock, last, seen_shift_ids,
                   active_shift, msg, history>>

ReadTotalsAllTime ==
    /\ startup.pc = "loaded"
    /\ startup' = AfterRead("totals_all_time", totals_all_time_error(startup.raw))
    /\ UNCHANGED <<ui, data, file, next_uuid, clock, last, seen_shift_ids,
                   active_shift, msg, history>>

\* Storage.data and the data file after a call that ends in the store st.
Persist(op, st) ==
    LET raw == Assigned(startup.raw, st.data)
    IN startup' = [startup EXCEPT
                      !.op = op,
                      !.raw = raw,
                      !.path = IF st.writes # <<>> THEN write_text(raw) ELSE @,
                      !.saved = IF st.writes # <<>> THEN Source(raw) ELSE @]

\* MainWindow.open_shift after load: get_active_shift.
LoadedGetActiveShift ==
    \/ /\ startup.pc = "loaded"
       /\ shifts_error(startup.raw) # "none"
       /\ startup' = AfterRead("get_active_shift", shifts_error(startup.raw))
       /\ UNCHANGED <<ui, data, file, next_uuid, clock, last, seen_shift_ids,
                      active_shift, msg, history>>
    \/ /\ startup.pc = "loaded"
       /\ WellShaped(startup.raw)
       /\ \E tA \in ReadingsA :
           \E r \in {get_active_shift(Store, tA)} :
              /\ Commit("get_active_shift", NoArgs, r.st, r.ret, NoOperation)
              /\ Persist("get_active_shift", r.st)
       /\ UNCHANGED <<active_shift, msg>>

LoadedAddOperation ==
    /\ startup.pc = "loaded"
    /\ WellShaped(startup.raw)
    /\ \E in \in HistoryInputs : \E tA \in ReadingsA : \E tB \in tA..MaxClock :
        \E r \in {add_operation_to_active(Store, in[1], in[2], tA, tB)} :
           /\ Commit("add_operation_to_active",
                     [NoArgs EXCEPT !.amount = in[1], !.comment = in[2]],
                     r.st, NoShift, r.ret)
           /\ Persist("add_operation_to_active", r.st)
    /\ UNCHANGED <<active_shift, msg>>

LoadedEndShift ==
    /\ startup.pc = "loaded"
    /\ WellShaped(startup.raw)
    /\ \E tA \in ReadingsA : \E tB \in tA..MaxClock : \E tC \in tB..MaxClock :
        \E r \in {end_shift_and_create_new(Store, tA, tB, tC)} :
           /\ Commit("end_shift_and_create_new", NoArgs, r.st, r.ret, NoOperation)
           /\ Persist("end_shift_and_create_new", r.st)
    /\ UNCHANGED <<active_shift, msg>>

\* The application exits, or has crashed, and is started again.
Restart ==
    /\ startup.pc \in {"loaded", "crashed"}
    /\ startup.op # "none"
    /\ startup' = [startup EXCEPT !.op = "__init__", !.raw = JObj(<<>>),
                                  !.raised = "none", !.pc = "start"]
    /\ UNCHANGED <<ui, data, file, next_uuid, clock, last, seen_shift_ids,
                   active_shift, msg, history>>

NextLoad ==
    \/ Load
    \/ ReadShifts
    \/ ReadTotalsAllTime
    \/ LoadedGetActiveShift
    \/ LoadedAddOperation
    \/ LoadedEndShift
    \/ Restart

\* Any sequence of starts of the application and of calls on the loaded
\* store.
SpecLoad == InitLoad /\ [][NextLoad]_vars

----------------------------------------------------------------------------
\* The state machine of the store on a disk that can fail: one action per
\* call of a mutator, each with the outcomes of its calls of write_text. The
\* calls all happen within one reading of the clock.

\* The outcomes of n calls of write_text.
Outcomes(n) == [1..n -> BOOLEAN]

\* The store state a call starts from when its writes have these outcomes.
OnDisk(outcomes) == [Store EXCEPT !.disk = outcomes]

\* The preset lists set_comments is called with.
PresetLists ==
    {<<default_comments.income, default_comments.expense>>,
     <<<<Bonus>>, default_comments.expense>>}

\* The operations entered in this machine.
DiskInputs == {<<1500, Zakaz>>}

DiskGetActiveShift ==
    /\ \E tA \in {clock} :
        \E outcomes \in Outcomes(Len(get_active_shift(Store, tA).st.writes)) :
        \E r \in {get_active_shift(OnDisk(outcomes), tA)} :
           Commit("get_active_shift", NoArgs, r.st, r.ret, NoOperation)
    /\ UNCHANGED <<active_shift, msg, startup>>

DiskEndShiftAndCreateNew ==
    /\ \E tA \in {clock} : \E tB \in {tA} : \E tC \in {tB} :
        \E outcomes \in
            Outcomes(Len(end_shift_and_create_new(Store, tA, tB, tC).st.writes)) :
        \E r \in {end_shift_and_create_new(OnDisk(outcomes), tA, tB, tC)} :
           Commit("end_shift_and_create_new", NoArgs, r.st, r.ret, NoOperation)
    /\ UNCHANGED <<active_shift, msg, startup>>

DiskResetCurrentShiftOperations ==
    /\ \E tA \in {clock} :
        \E outcomes \in
            Outcomes(Len(reset_current_shift_operations(Store, tA).st.writes)) :
        \E r \in {reset_current_shift_operations(OnDisk(outcomes), tA)} :
           Commit("reset_current_shift_operations", NoArgs, r.st, r.ret,
                  NoOperation)
    /\ UNCHANGED <<active_shift, msg, startup>>

DiskAddOperationToActive ==
    /\ \E in \in DiskInputs : \E tA \in {clock} : \E tB \in {tA} :
        \E outcomes \in
            Outcomes(Len(add_operation_to_active(Store, in[1], in[2], tA, tB)
                             .st.writes)) :
        \E r \in {add_operation_to_active(OnDisk(outcomes), in[1], in[2], tA, tB)} :
           Commit("add_operation_to_active",
                  [NoArgs EXCEPT !.amount = in[1], !.comment = in[2]],
                  r.st, NoShift, r.ret)
    /\ UNCHANGED <<active_shift, msg, startup>>

DiskDeleteOperationFromShift ==
    /\ \E shift_id \in ShiftIdArgs : \E op_id \in OperationIdArgs :
        \E outcomes \in
            Outcomes(Len(delete_operation_from_shift(Store, shift_id, op_id).writes)) :
        \E st \in {delete_operation_from_shift(OnDisk(outcomes), shift_id, op_id)} :
           Commit("delete_operation_from_shift",
                  [NoArgs EXCEPT !.shift_id = shift_id, !.op_id = op_id],
                  st, NoShift, NoOperation)
    /\ UNCHANGED <<active_shift, msg, startup>>

DiskDeleteOperationFromActive ==
    /\ \E op_id \in OperationIdArgs : \E tA \in {clock} :
        \E outcomes \in
            Outcomes(Len(delete_operation_from_active(Store, op_id, tA).writes)) :
        \E st \in {delete_operation_from_active(OnDisk(outcomes), op_id, tA)} :
           Commit("delete_operation_from_active", [NoArgs EXCEPT !.op_id = op_id],
                  st, NoShift, NoOperation)
    /\ UNCHANGED <<active_shift, msg, startup>>

DiskResetAllHistory ==
    /\ \E outcomes \in Outcomes(Len(reset_all_history(Store).writes)) :
        \E st \in {reset_all_history(OnDisk(outcomes))} :
           Commit("reset_all_history", NoArgs, st, NoShift, NoOperation)
    /\ UNCHANGED <<active_shift, msg, startup>>

DiskSetComments ==
    /\ \E lists \in PresetLists :
        \E outcomes \in Outcomes(Len(set_comments(Store, lists[1], lists[2]).writes)) :
        \E st \in {set_comments(OnDisk(outcomes), lists[1], lists[2])} :
           Commit("set_comments", NoArgs, st, NoShift, NoOperation)
    /\ UNCHANGED <<active_shift, msg, startup>>

NextDisk ==
    \/ DiskGetActiveShift
    \/ DiskEndShiftAndCreateNew
    \/ DiskResetCurrentShiftOperations
    \/ DiskAddOperationToActive
    \/ DiskDeleteOperationFromShift
    \/ DiskDeleteOperationFromActive
    \/ DiskResetAllHistory
    \/ DiskSetComments

\* Any sequence of calls of the mutators, from the default store, on a disk
\* whose writes can fail.
SpecDisk == Init /\ [][NextDisk]_vars

----------------------------------------------------------------------------
\* The state machine of the shift page and the settings page with their
\* widgets: the amount field and the comment combo box keep what the last
\* _on_amount_changed made of them, the list widgets of the settings page
\* keep the edits until Save. One action per user action; the actions all
\* happen within one reading of the clock.

\* main: Storage.load without a data file, then MainWindow().
InitPresets ==
    LET st0 == [data |-> default_data, file |-> default_data,
                writes |-> <<>>, uuid |-> 1, clock |-> 0, calls |-> <<>>,
                disk |-> <<>>, failed |-> 0, raised |-> "none"]
        r == _load_active_shift(st0, 0)
    IN /\ data = r.st.data
       /\ file = r.st.file
       /\ next_uuid = r.st.uuid
       /\ clock = r.st.clock
       /\ last = [op |-> "_load_active_shift", args |-> NoArgs,
                  pre |-> default_data, pre_file |-> default_data,
                  pre_seen |-> {}, writes |-> r.st.writes,
                  calls |-> <<>>, failed |-> 0, raised |-> "none",
                  ret_shift |-> r.active_shift, ret_op |-> NoOperation]
       /\ seen_shift_ids = ShiftIds(r.st.data)
       /\ active_shift = r.active_shift
       /\ msg = NoMessage
       /\ history = NoHistory
       /\ startup = NoStartup
       /\ ui = NoUi

\* The amount field after amount_edit.clear() and _on_amount_changed.
Cleared(u, d) ==
    [u EXCEPT !.amount_text = <<>>,
              !.combo = _on_amount_changed(<<>>, get_comments(d))]

\* The texts the user types into the amount field in this machine.
PresetsAmountTexts ==
    {<<"-", "0">>, <<"1", " ", "5", "0", "0">>, <<" ", "-", "3", "0", "0">>}

\* The effect of a handler on the store, in ledgers of fewer objects than
\* MaxUuid.
PresetsEffect(op, args, st, ret_shift, ret_op) ==
    /\ st.uuid <= MaxUuid
    /\ Effect(op, args, st, ret_shift, ret_op)

\* The user types into the amount field: textChanged, _on_amount_changed.
PresetsTypeAmount ==
    /\ ui.page = "shift"
    /\ \E text \in PresetsAmountTexts \ {ui.amount_text} :
          ui' = [ui EXCEPT !.amount_text = text,
                         !.combo = _on_amount_changed(text, get_comments(data))]
    /\ UNCHANGED <<data, file, next_uuid, clock, last, seen_shift_ids,
                   active_shift, msg, history, startup>>

\* The combo box items the user picks among: the first, the second, the
\* last but one and the last; currentIndex is -1 while the box has no item.
PresetsIndexes ==
    LET n == Len(ui.combo.items)
    IN IF n = 0 THEN {0 - 1} ELSE {0, 1, n - 2, n - 1} \cap (0..(n - 1))

\* What the input dialog returns; it is of use only for the manual item.
PresetsAnswers(index) ==
    IF index > 0 /\ strip(ui.combo.items[index + 1]) = OTHER_COMMENT_TEXT
    THEN OtherTexts \X BOOLEAN
    ELSE {<<<<>>, FALSE>>}

PresetsSaveOperation ==
    /\ ui.page = "shift"
    /\ \E index \in PresetsIndexes : \E answer \in PresetsAnswers(index) :
        \E r \in {_save_operation_on(Store, active_shift, ui.amount_text, ui.combo,
                                     index, answer[1], answer[2], clock, clock)} :
          /\ PresetsEffect("_save_operation",
                    [NoArgs EXCEPT !.text = ui.amount_text, !.index = index,
                                   !.other = answer[1], !.ok = answer[2]],
                    r.st, NoShift, r.ret)
          /\ active_shift' = r.active_shift
          /\ msg' = r.msg
          /\ ui' = IF r.ret = NoOperation THEN ui ELSE Cleared(ui, r.st.data)
    /\ UNCHANGED <<history, startup>>

PresetsNewShift ==
    /\ ui.page = "shift"
    /\ \E r \in {_new_shift(Store, clock, clock, clock)} :
          /\ PresetsEffect("_new_shift", NoArgs, r.st, NoShift, NoOperation)
          /\ active_shift' = r.active_shift
          /\ ui' = Cleared(ui, r.st.data)
    /\ msg' = NoMessage
    /\ UNCHANGED <<history, startup>>

PresetsResetShift ==
    /\ ui.page = "shift"
    /\ \E yes \in BOOLEAN :
        \E r \in {_reset_shift(Store, active_shift, yes, clock)} :
          /\ PresetsEffect("_reset_shift", [NoArgs EXCEPT !.ok = yes], r.st,
                    NoShift, NoOperation)
          /\ active_shift' = r.active_shift
    /\ msg' = NoMessage
    /\ UNCHANGED <<history, startup, ui>>

PresetsDeleteOperation ==
    /\ ui.page = "shift"
    /\ \E i \in 1..Len(active_shift.operations) : \E yes \in BOOLEAN :
        \E op_id \in {active_shift.operations[i].id} :
        \E r \in {_delete_operation(Store, active_shift, op_id, yes, clock)} :
          /\ PresetsEffect("_delete_operation",
                    [NoArgs EXCEPT !.op_id = op_id, !.ok = yes], r.st,
                    NoShift, NoOperation)
          /\ active_shift' = r.active_shift
    /\ msg' = NoMessage
    /\ UNCHANGED <<history, startup, ui>>

\* MainWindow.open_settings
PresetsOpenSettings ==
    /\ ui.page = "shift"
    /\ ui' = [settings_refresh(ui, data) EXCEPT !.page = "settings"]
    /\ UNCHANGED <<data, file, next_uuid, clock, last, seen_shift_ids,
                   active_shift, msg, history, startup>>

\* The user edits the list of income presets; the list of expense presets
\* goes through the same two handlers.
PresetsAddComment ==
    /\ ui.page = "settings"
    /\ \E is_income \in {TRUE} : \E text \in OtherTexts : \E ok \in BOOLEAN :
        \E r \in {_add_comment(ui, is_income, text, ok)} :
          /\ ui' = r.ui
          /\ msg' = r.msg
    /\ UNCHANGED <<data, file, next_uuid, clock, last, seen_shift_ids,
                   active_shift, history, startup>>

\* The rows of the presets the user added to the list: those that are not
\* default presets.
AddedRows(lst, defaults) ==
    {i \in 1..Len(lst) : \A k \in 1..Len(defaults) : defaults[k] # lst[i]}

\* The list's current item: none, or a preset the user added.
PresetsDeleteComment ==
    /\ ui.page = "settings"
    /\ \E is_income \in {TRUE} : \E yes \in BOOLEAN :
        \E row \in {0} \cup (IF is_income
                               THEN AddedRows(ui.income_list, default_comments.income)
                               ELSE AddedRows(ui.expense_list, default_comments.expense)) :
        \E r \in {_delete_comment(ui, is_income, row, yes)} :
          /\ ui' = r.ui
          /\ msg' = r.msg
    /\ UNCHANGED <<data, file, next_uuid, clock, last, seen_shift_ids,
                   active_shift, history, startup>>

PresetsSave ==
    /\ ui.page = "settings"
    /\ PresetsEffect("_save", NoArgs, _save(Store, ui), NoShift, NoOperation)
    /\ msg' = SavedInfo
    /\ UNCHANGED <<active_shift, history, startup, ui>>

\* The reset button; after a reset after_reset_cb shows the shift page.
PresetsResetAll ==
    /\ ui.page = "settings"
    /\ \E answer \in ResetAnswers :
        \E r \in {_reset_all(Store, active_shift, answer[1], answer[2],
                             answer[3], clock)} :
          /\ PresetsEffect("_reset_all",
                    [NoArgs EXCEPT !.yes = answer[1], !.other = answer[2],
                                   !.ok = answer[3]],
                    r.st, NoShift, NoOperation)
          /\ active_shift' = r.active_shift
          /\ msg' = r.msg
          /\ ui' = IF r.st.calls = <<>> THEN ui ELSE [ui EXCEPT !.page = "shift"]
    /\ UNCHANGED <<history, startup>>

\* The back button of the settings page: MainWindow.open_shift.
PresetsBack ==
    /\ ui.page = "settings"
    /\ \E r \in {open_shift(Store, ui, active_shift, clock)} :
          /\ PresetsEffect("open_shift", NoArgs, r.st, NoShift, NoOperation)
          /\ active_shift' = r.active_shift
          /\ ui' = r.ui
    /\ UNCHANGED <<msg, history, startup>>

NextPresets ==
    \/ PresetsTypeAmount
    \/ PresetsSaveOperation
    \/ PresetsNewShift
    \/ PresetsResetShift
    \/ PresetsDeleteOperation
    \/ PresetsOpenSettings
    \/ PresetsAddComment
    \/ PresetsDeleteComment
    \/ PresetsSave
    \/ PresetsResetAll
    \/ PresetsBack

\* Any sequence of user actions on the shift page and the settings page,
\* from the first start.
SpecPresets == InitPresets /\ [][NextPresets]_vars

----------------------------------------------------------------------------
\* The state machine of the window: the three pages and the modal dialogs.
\* One action per user action; a handler that opens a dialog stops at
\* exec() and goes on when the dialog closes. The comment presets do not
\* change here, and the actions all happen within one reading of the clock.

\* What the user enters on the shift page in this machine: the amount, and
\* no comment or the first preset.
NavAmountTexts == {<<"1", " ", "5", "0", "0">>}
NavIndexes == {0, 1}

NoDialog == ui.dialogs = <<>>
TopDialog == ui.dialogs[Len(ui.dialogs)]

NavSaveOperation ==
    /\ ui.page = "shift" /\ NoDialog
    /\ \E text \in NavAmountTexts : \E index \in NavIndexes :
        \E r \in {_save_operation(Store, active_shift, text, index, <<>>, FALSE,
                                  clock, clock)} :
          /\ Effect("_save_operation",
                    [NoArgs EXCEPT !.text = text, !.index = index],
                    r.st, NoShift, r.ret)
          /\ active_shift' = r.active_shift
          /\ msg' = r.msg
    /\ UNCHANGED <<history, startup, ui>>

NavNewShift ==
    /\ ui.page = "shift" /\ NoDialog
    /\ \E r \in {_new_shift(Store, clock, clock, clock)} :
          /\ Effect("_new_shift", NoArgs, r.st, NoShift, NoOperation)
          /\ active_shift' = r.active_shift
    /\ msg' = NoMessage
    /\ UNCHANGED <<history, startup, ui>>

NavResetShift ==
    /\ ui.page = "shift" /\ NoDialog
    /\ \E yes \in BOOLEAN :
        \E r \in {_reset_shift(Store, active_shift, yes, clock)} :
          /\ Effect("_reset_shift", [NoArgs EXCEPT !.ok = yes], r.st,
                    NoShift, NoOperation)
          /\ active_shift' = r.active_shift
    /\ msg' = NoMessage
    /\ UNCHANGED <<history, startup, ui>>

NavDeleteOperation ==
    /\ ui.page = "shift" /\ NoDialog
    /\ \E i \in 1..Len(active_shift.operations) : \E yes \in BOOLEAN :
        \E op_id \in {active_shift.operations[i].id} :
        \E r \in {_delete_operation(Store, active_shift, op_id, yes, clock)} :
          /\ Effect("_delete_operation",
                    [NoArgs EXCEPT !.op_id = op_id, !.ok = yes], r.st,
                    NoShift, NoOperation)
          /\ active_shift' = r.active_shift
    /\ msg' = NoMessage
    /\ UNCHANGED <<history, startup, ui>>

\* "Open" in the context menu of an operation of the shift page.
NavOpenOperation ==
    /\ ui.page = "shift" /\ NoDialog
    /\ \E i \in 1..Len(active_shift.operations) :
        \E op_id \in {active_shift.operations[i].id} :
        \E r \in {_open_operation(Store, ui, active_shift, op_id, clock)} :
          /\ Effect("_open_operation", [NoArgs EXCEPT !.op_id = op_id], r.st,
                    NoShift, NoOperation)
          /\ active_shift' = r.active_shift
          /\ ui' = r.ui
    /\ UNCHANGED <<msg, history, startup>>

\* MainWindow.open_history
NavOpenHistory ==
    /\ ui.page = "shift" /\ NoDialog
    /\ ui' = [ui EXCEPT !.page = "history"]
    /\ UNCHANGED <<data, file, next_uuid, clock, last, seen_shift_ids,
                   active_shift, msg, history, startup>>

\* MainWindow.open_settings
NavOpenSettings ==
    /\ ui.page = "shift" /\ NoDialog
    /\ ui' = [settings_refresh(ui, data) EXCEPT !.page = "settings"]
    /\ UNCHANGED <<data, file, next_uuid, clock, last, seen_shift_ids,
                   active_shift, msg, history, startup>>

\* A click on a shift card of the history page.
NavOpenShift ==
    /\ ui.page = "history" /\ NoDialog
    /\ \E shift_id \in ShiftIds(data) : ui' = _open_shift(Store, ui, shift_id)
    /\ UNCHANGED <<data, file, next_uuid, clock, last, seen_shift_ids,
                   active_shift, msg, history, startup>>

\* A click on a day card of the history page: HistoryPage._open_day.
NavOpenDay ==
    /\ ui.page = "history" /\ NoDialog
    /\ \E i \in 1..Len(data.shifts) :
          ui' = [ui EXCEPT !.dialogs =
                    Append(@, DayDialog(data, dt_to_ymd(data.shifts[i].start_ts)))]
    /\ UNCHANGED <<data, file, next_uuid, clock, last, seen_shift_ids,
                   active_shift, msg, history, startup>>

\* A click on a shift card of the day dialog.
NavDayOpenShift ==
    /\ ~NoDialog /\ TopDialog.kind = "day"
    /\ \E i \in 1..Len(TopDialog.cards) :
          ui' = _open_shift(Store, ui, TopDialog.cards[i].id)
    /\ UNCHANGED <<data, file, next_uuid, clock, last, seen_shift_ids,
                   active_shift, msg, history, startup>>

\* A click on an operation of the shift dialog.
NavShiftOpenOperation ==
    /\ ~NoDialog /\ TopDialog.kind = "shift"
    /\ \E i \in 1..Len(TopDialog.shift.operations) :
        \E op_id \in {TopDialog.shift.operations[i].id} :
        \E r \in {_open_operation(Store, ui, active_shift, op_id, clock)} :
          /\ Effect("_open_operation", [NoArgs EXCEPT !.op_id = op_id], r.st,
                    NoShift, NoOperation)
          /\ active_shift' = r.active_shift
          /\ ui' = r.ui
    /\ UNCHANGED <<msg, history, startup>>

\* The delete button of the operation dialog.
NavDialogDelete ==
    /\ ~NoDialog /\ TopDialog.kind = "operation"
    /\ \E yes \in BOOLEAN :
        \E r \in {OperationDetailsDialog_delete(Store, ui, active_shift, yes, clock)} :
          /\ Effect("OperationDetailsDialog._delete",
                    [NoArgs EXCEPT !.shift_id = TopDialog.shift.id,
                                   !.op_id = TopDialog.op.id, !.ok = yes],
                    r.st, NoShift, NoOperation)
          /\ active_shift' = r.active_shift
          /\ ui' = r.ui
    /\ UNCHANGED <<msg, history, startup>>

\* The close button of the dialog on top.
NavDialogClose ==
    /\ ~NoDialog
    /\ \E r \in {dialog_closed(Store, ui, active_shift, clock)} :
          /\ Effect("reject", NoArgs, r.st, NoShift, NoOperation)
          /\ active_shift' = r.active_shift
          /\ ui' = r.ui
    /\ UNCHANGED <<msg, history, startup>>

\* The reset button of the settings page.
NavResetAll ==
    /\ ui.page = "settings" /\ NoDialog
    /\ \E answer \in ResetAnswers :
        \E r \in {_reset_all(Store, active_shift, answer[1], answer[2],
                             answer[3], clock)} :
          /\ Effect("_reset_all",
                    [NoArgs EXCEPT !.yes = answer[1], !.other = answer[2],
                                   !.ok = answer[3]],
                    r.st, NoShift, NoOperation)
          /\ active_shift' = r.active_shift
          /\ msg' = r.msg
          /\ ui' = IF r.st.calls = <<>> THEN ui ELSE [ui EXCEPT !.page = "shift"]
    /\ UNCHANGED <<history, startup>>

\* The back button of the history page and of the settings page.
NavBack ==
    /\ ui.page \in {"history", "settings"} /\ NoDialog
    /\ \E r \in {open_shift(Store, ui, active_shift, clock)} :
          /\ Effect("open_shift", NoArgs, r.st, NoShift, NoOperation)
          /\ active_shift' = r.active_shift
          /\ ui' = r.ui
    /\ UNCHANGED <<msg, history, startup>>

NextNav ==
    \/ NavSaveOperation
    \/ NavNewShift
    \/ NavResetShift
    \/ NavDeleteOperation
    \/ NavOpenOperation
    \/ NavOpenHistory
    \/ NavOpenSettings
    \/ NavOpenShift
    \/ NavOpenDay
    \/ NavDayOpenShift
    \/ NavShiftOpenOperation
    \/ NavDialogDelete
    \/ NavDialogClose
    \/ NavResetAll
    \/ NavBack

\* Any sequence of user actions in the window, from the first start.
SpecNav == InitPresets /\ [][NextNav]_vars

----------------------------------------------------------------------------
\* The claims. last.pre is the store before the last call, data the store
\* after it.

\* The positions of the shifts of d that are open.
OpenShifts(d) == {i \in 1..Len(d.shifts) : d.shifts[i].end_ts = None}

HasActiveShift(d) ==
    d.active_shift_id # None /\ Positions(d.shifts, d.active_shift_id) # {}

\* The shift active_shift_id names, NoShift when it names none.
ActiveShiftOf(d) ==
    IF HasActiveShift(d)
    THEN d.shifts[Min(Positions(d.shifts, d.active_shift_id))]
    ELSE NoShift

Range(s) == {s[i] : i \in 1..Len(s)}

\* C1: after any sequence of store calls from the default store, at most one
\* shift has end_ts None.
C1_AtMostOneOpenShift == Cardinality(OpenShifts(data)) <= 1

C1_Witness ==
    /\ last.op = "end_shift_and_create_new"
    /\ Len(data.shifts) >= 2
    /\ Cardinality(OpenShifts(data)) = 1

\* C2: get_active_shift returns a shift with end_ts None, which is the shift
\* active_shift_id names; on a store without an active shift it adds exactly
\* one shift, with no operations and end_ts None, marks it active and
\* returns it; otherwise it changes nothing.
C2_GetActiveShift ==
    last.op = "get_active_shift" =>
        /\ last.ret_shift.end_ts = None
        /\ last.ret_shift = ActiveShiftOf(data)
        /\ IF HasActiveShift(last.pre)
           THEN data = last.pre
           ELSE /\ data.shifts = Append(last.pre.shifts, last.ret_shift)
                /\ last.ret_shift.operations = <<>>
                /\ last.ret_shift.id \notin ShiftIds(last.pre)

C2_Witness ==
    /\ last.op = "get_active_shift"
    /\ last.pre.shifts = <<>>
    /\ Len(data.shifts) = 1

\* C2, the other case: get_active_shift on a store with closed shifts returns
\* the open one.
C2_WitnessExisting ==
    /\ last.op = "get_active_shift"
    /\ Len(last.pre.shifts) >= 2
    /\ last.ret_shift.end_ts = None

\* C3: every snapshot a call writes to the data file is the file before the
\* call or the complete store after the call.
C3_AtomicWrites ==
    \A i \in 1..Len(last.writes) : last.writes[i] \in {last.pre_file, data}

\* C4: add_operation_to_active makes the active shift one operation longer,
\* the new operation is its last element, and the shift's income, expense
\* and total change by exactly the new amount.
C4_AddOperation ==
    last.op = "add_operation_to_active" =>
        LET before == ActiveShiftOf(last.pre)
            after == ActiveShiftOf(data)
            amount == last.args.amount
            n == Len(before.operations)
        IN /\ Len(after.operations) = n + 1
           /\ SubSeq(after.operations, 1, n) = before.operations
           /\ after.operations[n + 1] = last.ret_op
           /\ last.ret_op.amount = amount
           /\ last.ret_op.comment = last.args.comment
           /\ total(after) = total(before) + amount
           /\ income(after) = income(before) + (IF amount > 0 THEN amount ELSE 0)
           /\ expense(after) = expense(before) + (IF amount < 0 THEN 0 - amount ELSE 0)

C4_Witness ==
    /\ last.op = "add_operation_to_active"
    /\ Len(ActiveShiftOf(last.pre).operations) >= 1
    /\ last.args.amount < 0
    /\ income(ActiveShiftOf(data)) > 0

\* The amount text of the last _save_operation is no amount, or zero.
AmountRejected == ParsedAmount[last.args.text].none \/ ParsedAmount[last.args.text].value = 0

\* The comment of the last _save_operation is empty: no item of the combo box
\* is chosen, or the manual comment entered is blank.
CommentEmpty ==
    LET items == _on_amount_changed(last.args.text, get_comments(last.pre)).items
    IN \/ last.args.index <= 0
       \/ /\ strip(items[last.args.index + 1]) = OTHER_COMMENT_TEXT
          /\ last.args.ok
          /\ strip(last.args.other) = <<>>

C5_WitnessZero ==
    /\ last.op = "_save_operation"
    /\ ~ParsedAmount[last.args.text].none
    /\ ParsedAmount[last.args.text].value = 0
    /\ msg = BadAmountWarning

\* C6: in every step, the operation list of a shift that is not the active
\* open shift gains no element: it stays the same or shrinks.
C6_OnlyActiveShiftGrows ==
    \A i \in 1..Len(last.pre.shifts) : \A j \in 1..Len(data.shifts) :
        LET old == last.pre.shifts[i]
            new == data.shifts[j]
        IN (/\ old.id = new.id
            /\ (old.end_ts # None \/ old.id # last.pre.active_shift_id))
           => /\ Len(new.operations) <= Len(old.operations)
              /\ Range(new.operations) \subseteq Range(old.operations)

C6_Witness ==
    /\ last.op = "add_operation_to_active"
    /\ \E i \in 1..Len(last.pre.shifts) : last.pre.shifts[i].end_ts # None
    /\ Len(ActiveShiftOf(data).operations) = 1

\* C7: end_shift_and_create_new leaves the end_ts of every shift that was
\* already closed unchanged, and returns a new active shift whose id differs
\* from every shift id in the store before the call.
C7_EndShift ==
    last.op = "end_shift_and_create_new" =>
        /\ \A i \in 1..Len(last.pre.shifts) :
              last.pre.shifts[i].end_ts # None =>
                  /\ i <= Len(data.shifts)
                  /\ data.shifts[i].id = last.pre.shifts[i].id
                  /\ data.shifts[i].end_ts = last.pre.shifts[i].end_ts
        /\ last.ret_shift.id \notin ShiftIds(last.pre)
        /\ last.ret_shift = ActiveShiftOf(data)
        /\ last.ret_shift.end_ts = None

C7_Witness ==
    /\ last.op = "end_shift_and_create_new"
    /\ \E i \in 1..Len(last.pre.shifts) :
          /\ last.pre.shifts[i].end_ts # None
          /\ last.pre.shifts[i].end_ts < clock
    /\ Len(data.shifts) = Len(last.pre.shifts) + 1

\* The last call is a delete naming an operation that is not in the named
\* shift, or a shift that is not in the store.
DeleteOfAbsent ==
    \/ /\ last.op = "delete_operation_from_shift"
       /\ \A i \in 1..Len(last.pre.shifts) :
             last.pre.shifts[i].id = last.args.shift_id =>
                 \A j \in 1..Len(last.pre.shifts[i].operations) :
                     last.pre.shifts[i].operations[j].id # last.args.op_id
    \/ /\ last.op = "delete_operation_from_active"
       /\ \A j \in 1..Len(ActiveShiftOf(last.pre).operations) :
             ActiveShiftOf(last.pre).operations[j].id # last.args.op_id

\* C8 as stated: a delete of an absent operation or shift changes nothing.
C8_DeleteAbsentIsNoOp == DeleteOfAbsent => data = last.pre

\* C8, amended: delete_operation_from_shift of an absent operation or shift
\* changes nothing; delete_operation_from_active of an absent operation
\* changes nothing when the store has an active shift, and on a store
\* without one only adds the empty active shift get_active_shift creates.
C8_DeleteAbsentAmended ==
    DeleteOfAbsent =>
        IF last.op = "delete_operation_from_shift" \/ HasActiveShift(last.pre)
        THEN data = last.pre
        ELSE /\ Len(data.shifts) = Len(last.pre.shifts) + 1
             /\ SubSeq(data.shifts, 1, Len(last.pre.shifts)) = last.pre.shifts
             /\ data.shifts[Len(data.shifts)].operations = <<>>
             /\ data.shifts[Len(data.shifts)].end_ts = None
             /\ data.active_shift_id = data.shifts[Len(data.shifts)].id
             /\ data.settings = last.pre.settings

C8_Witness ==
    /\ last.op = "delete_operation_from_shift"
    /\ DeleteOfAbsent
    /\ last.args.shift_id \in ShiftIds(last.pre)
    /\ \E i \in 1..Len(last.pre.shifts) :
          /\ last.pre.shifts[i].id = last.args.shift_id
          /\ last.pre.shifts[i].operations # <<>>

\* C9: reset_current_shift_operations empties the active shift's operation
\* list and nothing else: the shift keeps its id and start_ts, is still open
\* and still the active shift, and every other shift is unchanged.
C9_ResetCurrentShift ==
    last.op = "reset_current_shift_operations" =>
        LET before == ActiveShiftOf(last.pre)
            after == ActiveShiftOf(data)
        IN /\ after.operations = <<>>
           /\ after.end_ts = None
           /\ after.id # None
           /\ last.ret_shift = after
           /\ HasActiveShift(last.pre) =>
                 /\ after.id = before.id
                 /\ after.start_ts = before.start_ts
                 /\ data.active_shift_id = last.pre.active_shift_id
                 /\ Len(data.shifts) = Len(last.pre.shifts)
           /\ \A i \in 1..Len(last.pre.shifts) :
                 last.pre.shifts[i].id # after.id =>
                     /\ i <= Len(data.shifts)
                     /\ data.shifts[i] = last.pre.shifts[i]

C9_Witness ==
    /\ last.op = "reset_current_shift_operations"
    /\ ActiveShiftOf(last.pre).operations # <<>>
    /\ Len(last.pre.shifts) >= 2

\* C10: reset_all_history leaves no shift and no active-shift pointer, and
\* get_active_shift on the emptied store returns a new shift without
\* operations whose id is the id of no shift that was ever in the store.
C10_ResetAllHistory ==
    /\ last.op = "reset_all_history" =>
          /\ data.shifts = <<>>
          /\ data.active_shift_id = None
    /\ (last.op = "get_active_shift" /\ last.pre.shifts = <<>>) =>
          /\ last.ret_shift.id \notin last.pre_seen
          /\ last.ret_shift.operations = <<>>
          /\ last.ret_shift.end_ts = None
          /\ data.shifts = <<last.ret_shift>>
          /\ data.active_shift_id = last.ret_shift.id

C10_Witness ==
    /\ last.op = "get_active_shift"
    /\ last.pre.shifts = <<>>
    /\ last.pre_seen # {}
    /\ last.pre.active_shift_id = None

\* The last user action called reset_all_history.
ResetCalled == \E i \in 1..Len(last.calls) : last.calls[i] = "reset_all_history"

\* C11 as stated: _reset_all calls reset_all_history only after the answer
\* Yes and the confirmation word typed into the accepted input dialog; when
\* the answer is not Yes, the dialog is cancelled or the typed text differs
\* from the word, the ledger is unchanged.
C11_ResetNeedsTypedWord ==
    last.op = "_reset_all" =>
        /\ ResetCalled =>
              (last.args.yes /\ last.args.ok /\ last.args.other = ConfirmWord)
        /\ (~last.args.yes \/ ~last.args.ok \/ last.args.other # ConfirmWord) =>
              (data = last.pre /\ last.writes = <<>>)

\* C11, amended: the typed text counts as the word when it is the word after
\* strip() and upper(); reset_all_history is called in no other user action.
C11_ResetNeedsConfirmation ==
    /\ ResetCalled => last.op = "_reset_all"
    /\ last.op = "_reset_all" =>
        /\ ResetCalled =>
              /\ last.args.yes
              /\ last.args.ok
              /\ upper(strip(last.args.other)) = ConfirmWord
        /\ (\/ ~last.args.yes
            \/ ~last.args.ok
            \/ upper(strip(last.args.other)) # ConfirmWord) =>
              /\ data = last.pre
              /\ file = last.pre_file
              /\ last.writes = <<>>
              /\ ~ResetCalled

C11_Witness ==
    /\ last.op = "_reset_all"
    /\ ResetCalled
    /\ last.args.other = ConfirmWord
    /\ OperationIds(last.pre) # {}
    /\ OperationIds(data) = {}

\* C11, the other case: the word mistyped after the answer Yes.
C11_WitnessDeclined ==
    /\ last.op = "_reset_all"
    /\ last.args.yes
    /\ last.args.ok
    /\ upper(strip(last.args.other)) # ConfirmWord
    /\ msg = CancelledInfo
    /\ OperationIds(data) # {}

\* The places <<i, j>> of the ledger d where the operation op_id is stored:
\* operation j of shift i.
PlacesOf(d, op_id) ==
    {p \in UNION {{<<i, j>> : j \in 1..Len(d.shifts[i].operations)} :
                     i \in 1..Len(d.shifts)} :
        d.shifts[p[1]].operations[p[2]].id = op_id}

\* The ids of the shifts of d that hold the operation op_id.
OwnersOf(d, op_id) == {d.shifts[p[1]].id : p \in PlacesOf(d, op_id)}

\* C12: every operation id is stored at exactly one place, in one shift, and
\* an operation that is in the store before and after a call is in the same
\* shift before and after.
C12_OneOwner ==
    /\ \A op_id \in OperationIds(data) : Cardinality(PlacesOf(data, op_id)) = 1
    /\ \A op_id \in OperationIds(data) \cap OperationIds(last.pre) :
          OwnersOf(data, op_id) = OwnersOf(last.pre, op_id)

C12_Witness ==
    /\ last.op = "end_shift_and_create_new"
    /\ Len(data.shifts) >= 2
    /\ OperationIds(data) # {}
    /\ ActiveShiftOf(data).operations = <<>>

\* The operation stored under op_id in d.
StoredOperation(d, op_id) ==
    LET p == CHOOSE q \in PlacesOf(d, op_id) : TRUE
    IN d.shifts[p[1]].operations[p[2]]

\* C13: an operation that is in the store before and after a call has the
\* same id, timestamp, amount and comment before and after.
C13_NeverUpdated ==
    \A op_id \in OperationIds(data) \cap OperationIds(last.pre) :
        StoredOperation(data, op_id) = StoredOperation(last.pre, op_id)

C13_Witness ==
    /\ last.op = "add_operation_to_active"
    /\ \E op_id \in OperationIds(last.pre) :
          /\ op_id \in OperationIds(data)
          /\ StoredOperation(data, op_id).ts < clock
          /\ StoredOperation(data, op_id).comment # last.args.comment

\* C14: totals_all_time() is the component-wise sum, over the shifts of the
\* store, of each shift's income, expense and total.
C14_TotalsAllTime ==
    LET shs == shifts(data)
    IN totals_all_time(data) =
          <<SumSeq([i \in 1..Len(shs) |-> income(shs[i])]),
            SumSeq([i \in 1..Len(shs) |-> expense(shs[i])]),
            SumSeq([i \in 1..Len(shs) |-> total(shs[i])])>>

C14_Witness ==
    /\ Len(data.shifts) >= 2
    /\ \E i \in 1..Len(data.shifts) :
          /\ data.shifts[i].end_ts # None
          /\ data.shifts[i].operations # <<>>
    /\ totals_all_time(data)[3] # 0

\* C15: for every shift, income is the sum of its positive amounts, expense
\* the sum of the magnitudes of its negative amounts, and total is income
\* minus expense; a shift with the operations 1500 and -300 has income 1500,
\* expense 300 and total 1200.
C15_ShiftTotals ==
    \A i \in 1..Len(shifts(data)) :
        LET s == shifts(data)[i]
            amounts == [j \in 1..Len(s.operations) |-> s.operations[j].amount]
        IN /\ income(s) = SumSeq(SelectSeq(amounts, LAMBDA a : a > 0))
           /\ expense(s) = 0 - SumSeq(SelectSeq(amounts, LAMBDA a : a < 0))
           /\ total(s) = income(s) - expense(s)
           /\ amounts = <<1500, 0 - 300>> =>
                 (income(s) = 1500 /\ expense(s) = 300 /\ total(s) = 1200)

C15_Witness ==
    \E i \in 1..Len(data.shifts) :
        /\ Len(data.shifts[i].operations) = 2
        /\ data.shifts[i].operations[1].amount = 1500
        /\ data.shifts[i].operations[2].amount = 0 - 300

\* The shifts of the store whose start_ts is on the day ymd.
ShiftsOfDay(d, ymd) == SelectSeq(d.shifts, LAMBDA s : dt_to_ymd(s.start_ts) = ymd)

\* The totals of the day ymd over the store d: income, expense, net, the
\* number of shifts and the number of operations.
DayTotals(d, ymd) ==
    LET a == Amounts(ShiftsOfDay(d, ymd))
        inc == SumSeq(SelectSeq(a, LAMBDA x : x > 0))
        exp == 0 - SumSeq(SelectSeq(a, LAMBDA x : x < 0))
    IN [income |-> inc, expense |-> exp, net |-> inc - exp,
        shift_count |-> Len(ShiftsOfDay(d, ymd)), operation_count |-> Len(a)]

\* C16: the totals the day details dialog and the day cards of the history
\* page show for a day are the totals over exactly the shifts of the store
\* that start on that day, whatever the timestamps of their operations; two
\* shifts of one day with the totals 1000 and -200 give 1000, 200, 800, 2.
C16_DayTotals ==
    /\ history.details.ymd # None =>
          LET t == DayTotals(data, history.details.ymd)
              dlg == history.details
          IN /\ {dlg.shifts[i].id : i \in 1..Len(dlg.shifts)}
                   = {s.id : s \in Range(ShiftsOfDay(data, dlg.ymd))}
             /\ Len(dlg.shifts) = t.shift_count
             /\ dlg.day_income = t.income
             /\ dlg.day_expense = t.expense
             /\ dlg.day_total = t.net
             /\ [i \in 1..Len(dlg.shifts) |-> total(dlg.shifts[i])]
                    \in {<<1000, 0 - 200>>, <<0 - 200, 1000>>} =>
                   /\ dlg.day_income = 1000
                   /\ dlg.day_expense = 200
                   /\ dlg.day_total = 800
                   /\ Len(dlg.shifts) = 2
    /\ \A ymd \in DOMAIN history.day_map :
          LET t == DayTotals(data, ymd)
              card == history.day_map[ymd]
          IN /\ card.shifts = t.shift_count
             /\ card.ops = t.operation_count
             /\ card.income = t.income
             /\ card.expense = t.expense
             /\ card.income - card.expense = t.net

C16_Witness ==
    /\ history.op = "_open_day"
    /\ Len(history.details.shifts) = 2
    /\ total(history.details.shifts[1]) = 1000
    /\ total(history.details.shifts[2]) = 0 - 200
    /\ history.details.day_total = 800
    /\ Len(data.shifts) = 2
    /\ \E j \in 1..Len(data.shifts[2].operations) :
          dt_to_ymd(data.shifts[2].operations[j].ts) # history.details.ymd

\* The ids of the shifts of the store d that start on a day of from..to.
ShiftIdsInRange(d, from, to) ==
    {d.shifts[i].id : i \in {k \in 1..Len(d.shifts) :
                               /\ from <= dt_to_ymd(d.shifts[k].start_ts)
                               /\ dt_to_ymd(d.shifts[k].start_ts) <= to}}

\* C17: a refresh with a range shows exactly the shifts that start on a day d
\* with from_day <= d <= to_day; the range is in ascending order, and a
\* custom range entered with the end before the start shows the shifts the
\* two dates entered in ascending order show.
C17_RangeFilter ==
    (history.op = "refresh" /\ history.range # NoRange) =>
        /\ history.range[1] <= history.range[2]
        /\ {history.shifts[i].id : i \in 1..Len(history.shifts)}
              = ShiftIdsInRange(data, history.range[1], history.range[2])
        /\ Len(history.shifts)
              = Cardinality(ShiftIdsInRange(data, history.range[1], history.range[2]))
        /\ history.filter_mode = "custom" =>
              LET low == IF history.entered[1] <= history.entered[2]
                         THEN history.entered[1] ELSE history.entered[2]
                  high == IF history.entered[1] <= history.entered[2]
                          THEN history.entered[2] ELSE history.entered[1]
              IN /\ history.range = <<low, high>>
                 /\ <<history.start_date, history.end_date>> = <<low, high>>
                 /\ history.shifts =
                       _get_filtered_shifts(data,
                           _current_range("custom", low, high, low))

C17_Witness ==
    /\ history.op = "refresh"
    /\ history.filter_mode = "custom"
    /\ history.entered[1] > history.entered[2]
    /\ \E i \in 1..Len(history.shifts) :
          dt_to_ymd(history.shifts[i].start_ts) = history.range[1]
    /\ \E i \in 1..Len(history.shifts) :
          dt_to_ymd(history.shifts[i].start_ts) = history.range[2]

\* C17, the other case: a range of one day that is the day of one shift and
\* not of another.
C17_WitnessInclusive ==
    /\ history.op = "refresh"
    /\ history.filter_mode = "custom"
    /\ history.range[1] = history.range[2]
    /\ history.shifts # <<>>
    /\ Len(history.shifts) < Len(data.shifts)

\* C18: a load of the text the program saved gives back the ledger it saved:
\* the same shifts in the same order with the same fields, the same
\* operations in the same order with the same fields, and the same
\* active_shift_id.
C18_RoundTrip ==
    (startup.op = "load" /\ startup.source.some) =>
        /\ startup.pc = "loaded"
        /\ Get(startup.raw, "shifts") = Get(startup.source.raw, "shifts")
        /\ Get(startup.raw, "active_shift_id")
              = Get(startup.source.raw, "active_shift_id")
        /\ WellShaped(startup.source.raw) =>
              /\ WellShaped(startup.raw)
              /\ shifts(data) = shifts(DataOf(startup.source.raw))
              /\ data.active_shift_id = DataOf(startup.source.raw).active_shift_id

C18_Witness ==
    /\ startup.op = "load"
    /\ startup.source.some
    /\ Len(data.shifts) = 2
    /\ data.shifts[1].end_ts # None
    /\ Len(data.shifts[1].operations) = 2
    /\ data.shifts[2].operations # <<>>
    /\ data.active_shift_id = data.shifts[2].id

\* load found a data file that json.loads does not parse.
LoadedCorruptFile ==
    startup.op = "load" /\ startup.read.exists /\ ~loads(startup.read.text).ok

\* C19: after load of a data file that does not parse, the text of that file
\* is in another file of the directory and the store holds the defaults.
C19_CorruptFileMovedAside ==
    LoadedCorruptFile =>
        /\ \E f \in startup.others : f.text = startup.read.text
        /\ startup.raw = DefaultJson

\* C20: whatever the data file holds, no exception escapes load or a later
\* read of the store.
C20_NeverRaises == startup.raised = "none"

\* The last snapshot the last call wrote, the file as it was when none of its
\* writes went through.
Persisted == IF last.writes = <<>> THEN last.pre_file ELSE last.writes[Len(last.writes)]

\* C21: when calls of write_text raise during a mutator, no exception escapes
\* the mutator; the data file holds the last snapshot whose write went
\* through, the file of before the call when none did; the ledger in memory
\* holds what the mutator made (the operation added, the shift created and
\* made active, the emptied ledger) and, when no write went through, the
\* data file does not.
C21_FailuresSwallowed ==
    last.failed > 0 =>
        /\ last.raised = "none"
        /\ file = Persisted
        /\ last.op = "add_operation_to_active" =>
              /\ HasActiveShift(data)
              /\ ActiveShiftOf(data).operations # <<>>
              /\ ActiveShiftOf(data).operations[Len(ActiveShiftOf(data).operations)]
                    = last.ret_op
              /\ last.ret_op.amount = last.args.amount
              /\ last.ret_op.comment = last.args.comment
              /\ last.writes = <<>> => last.ret_op.id \notin OperationIds(file)
        /\ last.op \in {"end_shift_and_create_new", "get_active_shift"} =>
              /\ last.ret_shift \in Range(data.shifts)
              /\ data.active_shift_id = last.ret_shift.id
              /\ last.writes = <<>> => last.ret_shift.id \notin ShiftIds(file)
        /\ last.op = "reset_all_history" =>
              /\ data.shifts = <<>> /\ data.active_shift_id = None
              /\ file = last.pre_file

\* An operation was added, every write of the call raised, the ledger in
\* memory holds the operation and the data file does not.
C21_Witness ==
    /\ last.op = "add_operation_to_active"
    /\ last.failed > 0
    /\ last.writes = <<>>
    /\ last.ret_op.id \in OperationIds(data)
    /\ last.ret_op.id \notin OperationIds(file)

\* C22: find_operation(op_id) returns, for an id of an operation of the
\* store, that operation and the shift whose list holds it; for an id that
\* is in no shift it returns not-found; it leaves the store and the data
\* file as they were and writes nothing.
C22_FindOperation ==
    last.op = "find_operation" =>
        /\ data = last.pre /\ file = last.pre_file /\ last.writes = <<>>
        /\ IF last.args.op_id \in OperationIds(last.pre)
           THEN /\ last.ret_op.id = last.args.op_id
                /\ last.ret_op = StoredOperation(last.pre, last.args.op_id)
                /\ last.ret_shift \in Range(last.pre.shifts)
                /\ last.ret_op \in Range(last.ret_shift.operations)
                /\ last.ret_shift.id \in OwnersOf(last.pre, last.args.op_id)
           ELSE last.ret_shift = NoShift /\ last.ret_op = NoOperation

\* find_operation found an operation of a closed shift of a ledger with two
\* shifts.
C22_Witness ==
    /\ last.op = "find_operation"
    /\ Len(data.shifts) = 2
    /\ last.ret_shift = data.shifts[1]
    /\ last.ret_op \in Range(data.shifts[1].operations)

\* find_operation was asked for an id that is in no shift of a store with
\* operations, and returned not-found.
C22_WitnessNotFound ==
    /\ last.op = "find_operation"
    /\ OperationIds(data) # {}
    /\ last.args.op_id \notin OperationIds(data)
    /\ last.ret_op = NoOperation

\* C23: after any sequence of user actions from the first start (operations
\* entered, comment presets edited and saved, new shift, deletes, resets)
\* every operation in the ledger has an amount other than 0 and a comment
\* that is not empty.
C23_StoredOperationsValid ==
    \A i \in 1..Len(data.shifts) : \A j \in 1..Len(data.shifts[i].operations) :
        /\ data.shifts[i].operations[j].amount # 0
        /\ data.shifts[i].operations[j].comment # <<>>

\* An operation was entered with a preset the user added in Settings.
C23_Witness ==
    /\ last.op = "_save_operation"
    /\ last.ret_op # NoOperation
    /\ last.ret_op.comment \notin Range(default_comments.income)
    /\ last.ret_op.comment \in Range(get_comments(data).income)

\* The input dialog for a manual comment returned blanks, and nothing was
\* stored.
C23_WitnessBlank ==
    /\ last.op = "_save_operation"
    /\ last.args.ok /\ last.args.other = <<" ">>
    /\ last.ret_op = NoOperation
    /\ msg = EmptyCommentWarning

\* C24: a call never changes the id or the start_ts of a shift and removes
\* shifts only in reset_all_history; the end_ts of a closed shift stays as
\* it is, and the end_ts of an open shift is set only by
\* end_shift_and_create_new.
C24_EndTsTransitions ==
    /\ last.op # "reset_all_history" => Len(data.shifts) >= Len(last.pre.shifts)
    /\ \A i \in 1..Min({Len(last.pre.shifts), Len(data.shifts)}) :
          LET before == last.pre.shifts[i]
              after == data.shifts[i]
          IN /\ after.id = before.id
             /\ after.start_ts = before.start_ts
             /\ before.end_ts # None => after.end_ts = before.end_ts
             /\ before.end_ts = None /\ after.end_ts # None =>
                   last.op = "end_shift_and_create_new"

\* end_shift_and_create_new closed the open shift of a ledger that had a
\* closed shift already.
C24_Witness ==
    /\ last.op = "end_shift_and_create_new"
    /\ Len(last.pre.shifts) = 2
    /\ last.pre.shifts[1].end_ts # None
    /\ last.pre.shifts[2].end_ts = None
    /\ data.shifts[2].end_ts # None

\* An operation was deleted from a closed shift, which stayed closed.
C24_WitnessClosed ==
    /\ last.op = "delete_operation_from_shift"
    /\ Len(last.pre.shifts) = 2
    /\ Len(data.shifts[1].operations) < Len(last.pre.shifts[1].operations)
    /\ data.shifts[1].end_ts # None

\* C25: whenever the window shows the shift page and no modal dialog is
\* open, ShiftPage.active_shift is the store's active shift, with the same
\* id and the same operations.
C25_CacheFresh ==
    (ui.page = "shift" /\ ui.dialogs = <<>>) =>
        /\ HasActiveShift(data)
        /\ active_shift = ActiveShiftOf(data)

\* On the history page the cached shift is stale: an operation of the
\* active shift was deleted in the dialogs.
C25_WitnessStale ==
    /\ ui.page = "history" /\ ui.dialogs = <<>>
    /\ active_shift.id = data.active_shift_id
    /\ Len(ActiveShiftOf(data).operations) < Len(active_shift.operations)

\* The shift page shows again after a delete in the operation dialog it
\* opened.
C25_Witness ==
    /\ ui.page = "shift" /\ ui.dialogs = <<>>
    /\ last.op = "OperationDetailsDialog._delete"
    /\ last.args.ok
    /\ Len(active_shift.operations) < Len(ActiveShiftOf(last.pre).operations)

\* The sequence s without its k-th element.
Without(s, k) == SubSeq(s, 1, k - 1) \o SubSeq(s, k + 1, Len(s))

\* The last call was delete_operation_from_shift(shift_id, op_id) for an
\* operation that was in that shift.
DeleteOfPresent ==
    /\ last.op = "delete_operation_from_shift"
    /\ \E i \in 1..Len(last.pre.shifts) :
          /\ last.pre.shifts[i].id = last.args.shift_id
          /\ \E k \in 1..Len(last.pre.shifts[i].operations) :
                last.pre.shifts[i].operations[k].id = last.args.op_id

\* C26: delete_operation_from_shift(shift_id, op_id) for an operation of
\* that shift removes that one operation: the other operations of the shift
\* keep their content and order, the shift keeps its id, start_ts and
\* end_ts, and the other shifts and active_shift_id are unchanged.
C26_DeleteFrame ==
    DeleteOfPresent =>
        /\ data.active_shift_id = last.pre.active_shift_id
        /\ Len(data.shifts) = Len(last.pre.shifts)
        /\ \A i \in 1..Len(last.pre.shifts) :
              IF last.pre.shifts[i].id # last.args.shift_id
              THEN data.shifts[i] = last.pre.shifts[i]
              ELSE /\ data.shifts[i].id = last.pre.shifts[i].id
                   /\ data.shifts[i].start_ts = last.pre.shifts[i].start_ts
                   /\ data.shifts[i].end_ts = last.pre.shifts[i].end_ts
                   /\ \E k \in 1..Len(last.pre.shifts[i].operations) :
                         /\ last.pre.shifts[i].operations[k].id = last.args.op_id
                         /\ data.shifts[i].operations =
                               Without(last.pre.shifts[i].operations, k)

\* The first of two operations of a shift was deleted, the second stayed.
C26_Witness ==
    /\ DeleteOfPresent
    /\ \E i \in 1..Len(last.pre.shifts) :
          /\ Len(last.pre.shifts[i].operations) = 2
          /\ last.pre.shifts[i].operations[1].id = last.args.op_id
          /\ data.shifts[i].operations = <<last.pre.shifts[i].operations[2]>>

\* An operation of a closed shift was deleted.
C26_WitnessClosed ==
    /\ DeleteOfPresent
    /\ last.args.shift_id # data.active_shift_id
    /\ Len(data.shifts) = 2
    /\ data.shifts[1].end_ts # None
    /\ Len(data.shifts[1].operations) < Len(last.pre.shifts[1].operations)

\* The position of the shift with the id in the ledger d.
LedgerPosition(d, id) == Min(Positions(d.shifts, id))

\* C27: get_shift_numbers_map gives the N shifts of the store the numbers
\* 1..N, each once, a shift with a smaller start_ts the smaller number, and
\* of two shifts with the same start_ts the one that is earlier in the
\* ledger the smaller number; the history page holds this numbering after a
\* refresh, and lists shifts with the same start_ts in ledger order.
C27_ShiftNumbers ==
    LET numbers == get_shift_numbers_map(data)
        N == Len(data.shifts)
    IN /\ DOMAIN numbers = ShiftIds(data)
       /\ {numbers[id] : id \in DOMAIN numbers} = 1..N
       /\ Cardinality(DOMAIN numbers) = N
       /\ \A i \in 1..N : \A j \in 1..N :
             (\/ data.shifts[i].start_ts < data.shifts[j].start_ts
              \/ /\ data.shifts[i].start_ts = data.shifts[j].start_ts
                 /\ i < j)
             => numbers[data.shifts[i].id] < numbers[data.shifts[j].id]
       /\ history.op = "refresh" =>
             /\ history.shift_numbers = numbers
             /\ \A a \in 1..Len(history.shifts) : \A b \in 1..Len(history.shifts) :
                   (a < b /\ history.shifts[a].start_ts = history.shifts[b].start_ts)
                   => LedgerPosition(data, history.shifts[a].id)
                        < LedgerPosition(data, history.shifts[b].id)

\* The history page shows two shifts that started in the same second, the
\* first of the ledger as number 1 and first in the list.
C27_Witness ==
    /\ history.op = "refresh"
    /\ Len(data.shifts) = 2
    /\ data.shifts[1].start_ts = data.shifts[2].start_ts
    /\ Len(history.shifts) = 2
    /\ history.shifts[1].id = data.shifts[1].id
    /\ history.shift_numbers[data.shifts[1].id] = 1
    /\ history.shift_numbers[data.shifts[2].id] = 2

----------------------------------------------------------------------------
\* The state machine of the store of a process that can stop after any write
\* of the data file.

\* The process stops right after the i-th write of the data file in its last
\* call and the application is started again: Storage.load reads the file
\* as that write left it, finds every key in it, and saves.
StopAndLoad ==
    /\ \E i \in 1..Len(last.writes) :
        \E st \in {save([Store EXCEPT !.data = last.writes[i],
                                      !.file = last.writes[i]])} :
           Commit("restart", NoArgs, st, NoShift, NoOperation)
    /\ UNCHANGED <<active_shift, msg, startup>>

NextCrash ==
    \/ StopAndLoad
    \/ FindOperation
    \/ GetActiveShift
    \/ EndShiftAndCreateNew
    \/ ResetCurrentShiftOperations
    \/ AddOperationToActive
    \/ DeleteOperationFromShift
    \/ DeleteOperationFromActive
    \/ ResetAllHistory

\* Any sequence of store calls and of restarts from a write of the last call.
SpecCrash == Init /\ [][NextCrash]_vars

\* The store loaded after a stop has at most one open shift.
C28_AtMostOneOpen ==
    last.op = "restart" => Cardinality(OpenShifts(data)) <= 1

\* get_active_shift returns an open shift.
C28_ActiveIsOpen ==
    last.op = "get_active_shift" => last.ret_shift.end_ts = None

\* add_operation_to_active appends to no shift that was closed.
C28_AppendsToOpen ==
    last.op = "add_operation_to_active" =>
        \A i \in 1..Len(last.pre.shifts) :
            Len(data.shifts[i].operations) > Len(last.pre.shifts[i].operations)
            => last.pre.shifts[i].end_ts = None

\* C28: when the process stops right after any one write of the data file
\* and the store is loaded again from that file, the loaded store has at
\* most one open shift, get_active_shift returns an open shift, and
\* add_operation_to_active appends to no closed shift.
C28_RestartSafe ==
    /\ C28_AtMostOneOpen
    /\ C28_ActiveIsOpen
    /\ C28_AppendsToOpen

\* update_shift found no shift with the id of the updated one and appended it.
AppendBranchTaken ==
    \E i \in 1..Len(last.calls) : last.calls[i] = "shifts.append(updated)"

\* Between calls: active_shift_id is None exactly when there are no shifts;
\* otherwise it names the last shift of the ledger, which is open, and every
\* earlier shift is closed; the shift ids are pairwise distinct.
LedgerShape ==
    /\ data.active_shift_id = None <=> data.shifts = <<>>
    /\ data.shifts # <<>> =>
          LET N == Len(data.shifts)
          IN /\ data.active_shift_id = data.shifts[N].id
             /\ data.shifts[N].end_ts = None
             /\ \A i \in 1..(N - 1) : data.shifts[i].end_ts # None
    /\ Cardinality(ShiftIds(data)) = Len(data.shifts)

\* C29 as stated: the ledger has the shape above, a call leaves the number
\* of shifts as it was, raises it by one or (reset_all_history) makes it 0,
\* and update_shift never appends.
C29_AsStated ==
    /\ LedgerShape
    /\ \/ Len(data.shifts) = Len(last.pre.shifts)
       \/ Len(data.shifts) = Len(last.pre.shifts) + 1
       \/ data.shifts = <<>> /\ last.op = "reset_all_history"
    /\ ~AppendBranchTaken

\* C29, amended: the ledger has the shape above; a call leaves the number of
\* shifts as it was, raises it by one, raises it by two (only
\* end_shift_and_create_new on a store with no shifts, which creates a
\* shift in get_active_shift and then the new one) or makes it 0 (only
\* reset_all_history); every shift a call adds has an id that no shift had
\* before, and update_shift never appends.
C29_LedgerShape ==
    /\ LedgerShape
    /\ \/ Len(data.shifts) = Len(last.pre.shifts)
       \/ Len(data.shifts) = Len(last.pre.shifts) + 1
       \/ /\ Len(data.shifts) = 2
          /\ last.pre.shifts = <<>>
          /\ last.op = "end_shift_and_create_new"
       \/ data.shifts = <<>> /\ last.op = "reset_all_history"
    /\ \A i \in (Len(last.pre.shifts) + 1)..Len(data.shifts) :
          data.shifts[i].id \notin last.pre_seen
    /\ ~AppendBranchTaken

\* end_shift_and_create_new closed the last shift of a ledger of two and
\* added a third through _save_shifts, after update_shift replaced a shift.
C29_Witness ==
    /\ last.op = "end_shift_and_create_new"
    /\ Len(last.pre.shifts) = 2
    /\ Len(data.shifts) = 3
    /\ data.shifts[2].end_ts # None
    /\ data.active_shift_id = data.shifts[3].id
    /\ Len(last.writes) = 3

\* end_shift_and_create_new on a store with no shifts left two shifts.
C29_WitnessTwo ==
    /\ last.op = "end_shift_and_create_new"
    /\ last.pre.shifts = <<>>
    /\ Len(data.shifts) = 2

\* C30: with a clock that does not go backwards, the operations of a shift
\* have non-decreasing timestamps in list order; no operation is older than
\* the start of its shift or newer than the end of its closed shift; a
\* closed shift does not end before it starts; and a shift does not start
\* before the shift before it in the ledger ends.
C30_TimestampOrder ==
    \A i \in 1..Len(data.shifts) :
        LET s == data.shifts[i]
            n == Len(s.operations)
        IN /\ \A j \in 1..n : \A k \in 1..n :
                 j < k => s.operations[j].ts <= s.operations[k].ts
           /\ \A j \in 1..n :
                 /\ s.start_ts <= s.operations[j].ts
                 /\ s.end_ts # None => s.operations[j].ts <= s.end_ts
           /\ s.end_ts # None => s.start_ts <= s.end_ts
           /\ i < Len(data.shifts) =>
                 /\ s.end_ts # None
                 /\ s.end_ts <= data.shifts[i + 1].start_ts

\* A shift that was closed later than it started, with an operation, is
\* followed by a shift that started when it ended.
C30_Witness ==
    /\ Len(data.shifts) = 2
    /\ data.shifts[1].start_ts < data.shifts[1].end_ts
    /\ Len(data.shifts[1].operations) = 1
    /\ data.shifts[2].start_ts = data.shifts[1].end_ts

\* A shift holds two operations, the second entered later than the first.
C30_WitnessOperations ==
    /\ Len(data.shifts) = 1
    /\ Len(data.shifts[1].operations) = 2
    /\ data.shifts[1].operations[1].ts < data.shifts[1].operations[2].ts

====
